---- MODULE Spec2Model ----
(***************************************************************************)
(* Git-sonar: the repository object decoder (pack index, delta, walk) and  *)
(* the graph builder (topological order, lanes, edges, default head),      *)
(* modelled from lib/git/graph.ts (src/unnamed/part_009), the ZIP / API    *)
(* importer (src/unnamed/part_008) and import-local.ts                     *)
(* (src/unnamed/part_007).                                                 *)
(*                                                                         *)
(* A JavaScript Map is a sequence of entries in insertion order with       *)
(* unique keys.  A commit map is a sequence of CommitNode records; commit  *)
(* ids are small integers.                                                 *)
(***************************************************************************)
EXTENDS Integers, Sequences, FiniteSets, TLC

VARIABLES
    \* ---- graph builder (buildRepoGraph and the render adapters)
    commits,      \* Map<string, CommitNode>, in insertion order
    inDegree,     \* buildTopoOrder: inDegree map
    queue,        \* buildTopoOrder: ready queue
    result,       \* buildTopoOrder: output so far
    topoOrder,    \* RepoGraph.topoOrder
    lanes,        \* RepoGraph.lanes
    edges,        \* generateEdges(graph)
    gpc,          \* position in the graph pipeline
    metrics,      \* computeMetrics(commits)
    nodes,        \* generatePositionedNodes(graph)
    rerun,        \* the result of a second run, for comparison with the first
    \* ---- pack index reader (parsePackIndex)
    idxEntries,   \* the hash table and 4-byte offset table the index was written from
    idxLarge,     \* the large-offset table the index was written from
    idxData,      \* the bytes of the .idx file
    idxResult,    \* what parsePackIndex returned
    ipc,
    packHeader,   \* an object header of a pack: the type and size written, and the bytes
    headerRead,   \* what readPackObject read from these bytes
    \* ---- delta application (applyDelta)
    deltaBase,    \* the base object's bytes
    deltaInstrs,  \* the copy / insert instructions the delta was written from
    deltaStream,  \* the bytes of the delta
    deltaResult,  \* what applyDelta returned
    dpc,
    \* ---- imports (parseGitZip / parseFromFS, parseGitHubRepo, importLocalExport)
    fs,            \* the files of the ZIP: HEAD, packed-refs, loose refs, objects, packs
    source,        \* what a hosting API or a JSON export delivers
    refs,          \* parseFromFS: refs
    defaultBranch, \* parseFromFS: defaultBranch
    visited,       \* parseFromFS: visited
    toVisit,       \* parseFromFS: toVisit
    failedReads,   \* parseFromFS: failedReads
    walked,        \* parseFromFS: commits
    decoded,       \* the last object read and what readGitObject returned
    outcome,       \* the RepoGraph returned or the error thrown
    mpc,
    \* ---- the application store (useGraphStore); its nodes and edges are the
    \*      variables nodes and edges above
    graph,               \* GraphState.graph
    selectedId,          \* GraphState.selectedId
    isLoading,           \* GraphState.isLoading
    error,               \* GraphState.error
    hasMoreCommits,      \* GraphState.hasMoreCommits
    currentRepoPath,     \* GraphState.currentRepoPath
    currentRepoProvider, \* GraphState.currentRepoProvider
    authToken,           \* GraphState.authToken
    loadedCommitCount,   \* GraphState.loadedCommitCount
    imports              \* the calls of the import handlers, in the order they started

gvars == <<commits, inDegree, queue, result, topoOrder, lanes, edges, gpc,
           metrics, nodes, rerun>>
ivars == <<idxEntries, idxLarge, idxData, idxResult, ipc, packHeader, headerRead>>

dvars == <<deltaBase, deltaInstrs, deltaStream, deltaResult, dpc>>

mvars == <<fs, source, refs, defaultBranch, visited, toVisit, failedReads, walked,
           decoded, outcome, mpc>>

uvars == <<graph, selectedId, isLoading, error, hasMoreCommits, currentRepoPath,
           currentRepoProvider, authToken, loadedCommitCount, imports>>

vars == <<gvars, ivars, dvars, mvars, uvars>>

-----------------------------------------------------------------------------
(* Bounds of the explored inputs.                                          *)

MaxCommits == 3
MaxParents == 3

\* total number of parent entries in one explored commit map
MaxEdges == MaxCommits

\* objects in one explored pack index, and entries of its large-offset table
MaxIdxObjects == 2
MaxLargeOffsets == 2

\* instructions in one explored delta
MaxInstrs == 2

\* binary digits of the sizes written to an explored object header
MaxSizeBits == 36

\* deltas in the longest explored delta chain
MaxChain == 52

\* object ids of an explored store, its packs, and the objects in its packs
MaxObjects == 3
MaxPacks == 2
MaxPackObjects == 3

\* lines of packed-refs plus loose ref files of an explored ZIP
MaxRefs == 2

\* authoredAt values (milliseconds); two values give ties and both orders
Times == {1000, 2000}

-----------------------------------------------------------------------------
(* Generic helpers.                                                        *)

Range(s) == {s[i] : i \in DOMAIN s}

RECURSIVE SumSeq(_)
SumSeq(s) == IF s = <<>> THEN 0 ELSE Head(s) + SumSeq(Tail(s))

RECURSIVE Flatten(_)
Flatten(ss) == IF ss = <<>> THEN <<>> ELSE Head(ss) \o Flatten(Tail(ss))

\* the concatenation of sequences that all have length w
FlattenW(ss, w) ==
    [k \in 1..(Len(ss) * w) |-> ss[((k - 1) \div w) + 1][((k - 1) % w) + 1]]

\* the subsequence of s whose elements are in keep
RECURSIVE SelectSeqBy(_, _)
SelectSeqBy(s, keep) ==
    IF s = <<>> THEN <<>>
    ELSE (IF Head(s) \in keep THEN <<Head(s)>> ELSE <<>>) \o SelectSeqBy(Tail(s), keep)

-----------------------------------------------------------------------------
(* Commit maps.                                                            *)

\* commits.has(id)
Has(c, id) == \E i \in DOMAIN c : c[i].id = id

\* commits.get(id), for an id the map holds
Get(c, id) == c[CHOOSE i \in DOMAIN c : c[i].id = id]

\* the keys in iteration order
Keys(c) == [i \in DOMAIN c |-> c[i].id]

\* commits.get(a)?.authoredAt ?? 0, the sort key of the ready queue
TimeOf(c, id) == IF Has(c, id) THEN Get(c, id).authoredAt ELSE 0

-----------------------------------------------------------------------------
(* buildTopoOrder (Kahn's algorithm).                                      *)

\* Mutant: the in-degree counts every parent entry, present or not.
InDegreeAllParents(c, id) == Len(Get(c, id).parents)

\* lines 18-34: the in-degree of id counts its parent entries that are in the map
InitialInDegree(c, id) ==
    Cardinality({k \in DOMAIN Get(c, id).parents : Has(c, Get(c, id).parents[k])})

\* lines 18-34: children.get(p): one push of the child per parent entry equal
\* to p, commits in map order
ChildrenOf(c, p) ==
    Flatten([i \in DOMAIN c |->
        [k \in 1..Cardinality({j \in DOMAIN c[i].parents : c[i].parents[j] = p})
            |-> c[i].id]])

\* Array.prototype.sort with the authoredAt comparator: a stable sort.  The
\* element x goes behind every element already placed whose key is <= its own.
InsertByTime(c, sorted, x) ==
    LET n == Cardinality({i \in DOMAIN sorted : TimeOf(c, sorted[i]) <= TimeOf(c, x)})
    IN  SubSeq(sorted, 1, n) \o <<x>> \o SubSeq(sorted, n + 1, Len(sorted))

RECURSIVE SortFrom(_, _, _)
SortFrom(c, sorted, rest) ==
    IF rest = <<>> THEN sorted
    ELSE SortFrom(c, InsertByTime(c, sorted, Head(rest)), Tail(rest))

SortQueue(c, q) == SortFrom(c, <<>>, q)

\* lines 15-49: in-degrees, then the roots in map order, sorted by timestamp
KahnSeed(c) ==
    LET deg == [id \in Range(Keys(c)) |-> InitialInDegree(c, id)]
    IN  [inDegree |-> deg,
         queue    |-> SortQueue(c, SelectSeqBy(Keys(c), {id \in DOMAIN deg : deg[id] = 0})),
         result   |-> <<>>]

\* Mutant: a child that became ready is pushed and the queue is left as it is.
RECURSIVE RelaxChildrenUnsorted(_, _, _, _)
RelaxChildrenUnsorted(c, kids, deg, q) ==
    IF kids = <<>> THEN [inDegree |-> deg, queue |-> q]
    ELSE LET childId   == Head(kids)
             newDegree == deg[childId] - 1
             deg2      == [deg EXCEPT ![childId] = newDegree]
             q2        == IF newDegree = 0 THEN Append(q, childId) ELSE q
         IN  RelaxChildrenUnsorted(c, Tail(kids), deg2, q2)

\* lines 58-70: the loop over the children of the commit just output
RECURSIVE RelaxChildren(_, _, _, _)
RelaxChildren(c, kids, deg, q) ==
    IF kids = <<>> THEN [inDegree |-> deg, queue |-> q]
    ELSE LET childId   == Head(kids)
             newDegree == deg[childId] - 1
             deg2      == [deg EXCEPT ![childId] = newDegree]
             q2        == IF newDegree = 0
                          THEN SortQueue(c, Append(q, childId))
                          ELSE q
         IN  RelaxChildren(c, Tail(kids), deg2, q2)

\* lines 53-71: one iteration of the while loop (queue.shift, result.push, children)
KahnStep(c, st) ==
    LET id == Head(st.queue)
        r  == RelaxChildren(c, ChildrenOf(c, id), st.inDegree, Tail(st.queue))
    IN  [inDegree |-> r.inDegree, queue |-> r.queue, result |-> Append(st.result, id)]

RECURSIVE KahnRun(_, _)
KahnRun(c, st) == IF st.queue = <<>> THEN st.result ELSE KahnRun(c, KahnStep(c, st))

buildTopoOrder(c) == KahnRun(c, KahnSeed(c))

-----------------------------------------------------------------------------
(* assignLanes.                                                            *)

\* String.prototype.toLowerCase on the branch names the model uses
ToLower(name) ==
    CASE name = "Main"   -> "main"
      [] name = "MASTER" -> "master"
      [] OTHER           -> name

\* lines 87-97: childrenOf.get(p), built like the children map of buildTopoOrder
childrenOf(c, p) ==
    Flatten([i \in DOMAIN c |->
        [k \in 1..Cardinality({j \in DOMAIN c[i].parents : c[i].parents[j] = p})
            |-> c[i].id]])

\* Mutant: the search for a free lane starts at lane 1.
LowestFreeLaneFromOne(inUse) ==
    CHOOSE l \in 1..(Cardinality(inUse) + 1) :
        l \notin inUse /\ \A m \in 1..(l - 1) : m \in inUse

\* lines 135-139: the lowest lane that is not a key of laneInUse
LowestFreeLane(inUse) ==
    CHOOSE l \in 0..Cardinality(inUse) : l \notin inUse /\ \A m \in 0..(l - 1) : m \in inUse

\* lines 108-117: the first branch hint, lower-cased, is main or master
HintForcesLaneZero(commit) ==
    /\ Len(commit.branchHints) > 0
    /\ ToLower(commit.branchHints[1]) \in {"main", "master"}

\* lines 119-132: the lane of the first parent is inherited
InheritsParentLane(c, st, commit) ==
    /\ Len(commit.parents) > 0
    /\ commit.parents[1] \in DOMAIN st.lanes
    /\ LET parentChildren == childrenOf(c, commit.parents[1])
       IN  \/ Len(parentChildren) = 1
           \/ (Len(parentChildren) > 0 /\ parentChildren[1] = commit.id)

\* lines 104-157: the body of the loop over topoOrder
LaneStep(c, st, id) ==
    IF ~Has(c, id) THEN st
    ELSE LET commit == Get(c, id)
             assignedLane ==
                 IF HintForcesLaneZero(commit) THEN 0
                 ELSE IF InheritsParentLane(c, st, commit)
                      THEN st.lanes[commit.parents[1]]
                      ELSE LowestFreeLane(st.laneInUse)
         IN  [lanes     |-> [x \in DOMAIN st.lanes \cup {id} |->
                                IF x = id THEN assignedLane ELSE st.lanes[x]],
              laneInUse |-> st.laneInUse \cup {assignedLane}]

RECURSIVE LaneRun(_, _, _)
LaneRun(c, st, order) ==
    IF order = <<>> THEN st.lanes
    ELSE LaneRun(c, LaneStep(c, st, Head(order)), Tail(order))

\* the empty lanes map
NoLanes == [x \in {} |-> 0]

\* nothing computed yet by the adapters and by computeMetrics
NotRun ==
    /\ metrics = <<>>
    /\ nodes = <<>>
    /\ rerun = <<>>

GraphIdle ==
    /\ commits = <<>>
    /\ inDegree = NoLanes
    /\ queue = <<>>
    /\ result = <<>>
    /\ topoOrder = <<>>
    /\ lanes = NoLanes
    /\ edges = <<>>
    /\ gpc = "idle"
    /\ NotRun

\* Mutant: laneInUse outlives the call and still holds the lanes of the last run.
LaneStateLeftOver == [lanes |-> NoLanes, laneInUse |-> {lanes[x] : x \in DOMAIN lanes}]

\* lines 85 and 100: lanes and laneInUse are created empty by every call
FreshLaneState == [lanes |-> NoLanes, laneInUse |-> {}]

assignLanes(c, order) == LaneRun(c, FreshLaneState, order)

-----------------------------------------------------------------------------
(* generateEdges.                                                          *)

\* Mutant: an edge for every parent entry, present in the map or not.
EdgesOfAllParents(commit, c) ==
    [k \in DOMAIN commit.parents |->
        [from |-> commit.parents[k], to |-> commit.id,
         isMerge |-> Len(commit.parents) > 1]]

\* Mutant: only the edges from the second and later parents are flagged.
EdgesOfMergeBySide(commit, c) ==
    LET present == {k \in DOMAIN commit.parents : Has(c, commit.parents[k])}
        kept    == SelectSeqBy([k \in DOMAIN commit.parents |-> k], present)
    IN  [j \in DOMAIN kept |->
            [from |-> commit.parents[kept[j]], to |-> commit.id,
             isMerge |-> kept[j] > 1]]

\* lines 273-281: the edges pushed for one commit
EdgesOf(commit, c) ==
    LET present == {k \in DOMAIN commit.parents : Has(c, commit.parents[k])}
        kept    == SelectSeqBy([k \in DOMAIN commit.parents |-> k], present)
    IN  [j \in DOMAIN kept |->
            [from |-> commit.parents[kept[j]], to |-> commit.id,
             isMerge |-> Len(commit.parents) > 1]]

\* lines 258-285
generateEdges(c) == Flatten([i \in DOMAIN c |-> EdgesOf(c[i], c)])

-----------------------------------------------------------------------------
(* computeMetrics.                                                         *)
(*                                                                         *)
(* An optional number (additions?, deletions?) is <<>> when undefined and  *)
(* <<n>> otherwise; stats is <<>> when the commit has none and a one-      *)
(* element sequence holding the CommitStats record otherwise.  minTime and *)
(* maxTime are <<>> while they still hold Infinity / -Infinity.            *)

\* value ?? 0
OrZero(v) == IF v = <<>> THEN 0 ELSE v[1]

\* authorCommits.get(name) ?? 0
CountOf(m, name) ==
    IF \E i \in DOMAIN m : m[i].key = name
    THEN m[CHOOSE i \in DOMAIN m : m[i].key = name].value
    ELSE 0

\* authorCommits.set(name, value): a new key goes to the end
CountSet(m, name, value) ==
    IF \E i \in DOMAIN m : m[i].key = name
    THEN [i \in DOMAIN m |-> IF m[i].key = name THEN [key |-> name, value |-> value] ELSE m[i]]
    ELSE Append(m, [key |-> name, value |-> value])

\* Mutant: a commit with any parent counts as a merge.
IsMergeAnyParent(commit) == Len(commit.parents) > 0

\* line 179
IsMerge(commit) == Len(commit.parents) > 1

\* lines 166-171
MetricsStart ==
    [authorCommits |-> <<>>, mergeCount |-> 0, totalAdditions |-> 0,
     totalDeletions |-> 0, minTime |-> <<>>, maxTime |-> <<>>]

\* lines 173-192: the body of the loop over commits.values()
MetricsStep(m, commit) ==
    [authorCommits  |-> CountSet(m.authorCommits, commit.authorName,
                                 CountOf(m.authorCommits, commit.authorName) + 1),
     mergeCount     |-> m.mergeCount + (IF IsMerge(commit) THEN 1 ELSE 0),
     totalAdditions |-> m.totalAdditions
                          + (IF commit.stats # <<>> THEN OrZero(commit.stats[1].additions) ELSE 0),
     totalDeletions |-> m.totalDeletions
                          + (IF commit.stats # <<>> THEN OrZero(commit.stats[1].deletions) ELSE 0),
     minTime        |-> IF m.minTime = <<>> \/ commit.authoredAt < m.minTime[1]
                        THEN <<commit.authoredAt>> ELSE m.minTime,
     maxTime        |-> IF m.maxTime = <<>> \/ commit.authoredAt > m.maxTime[1]
                        THEN <<commit.authoredAt>> ELSE m.maxTime]

RECURSIVE MetricsRun(_, _)
MetricsRun(m, rest) ==
    IF rest = <<>> THEN m ELSE MetricsRun(MetricsStep(m, Head(rest)), Tail(rest))

\* lines 165-203
computeMetrics(c) ==
    LET m == MetricsRun(MetricsStart, c)
    IN  [commitCount    |-> Len(c),
         mergeCount     |-> m.mergeCount,
         authorCount    |-> Len(m.authorCommits),
         authorCommits  |-> m.authorCommits,
         totalAdditions |-> m.totalAdditions,
         totalDeletions |-> m.totalDeletions,
         timeSpan       |-> IF m.minTime # <<>> /\ m.maxTime[1] > m.minTime[1]
                            THEN m.maxTime[1] - m.minTime[1] ELSE 0]

-----------------------------------------------------------------------------
(* generatePositionedNodes.                                                *)
(*                                                                         *)
(* authoredAt is an integer or NaN (new Date(text).getTime() of a text     *)
(* that is no date).  t is a quotient of two integers, kept as numerator   *)
(* and denominator, or NaN.                                                *)

\* the number NaN, as the value of authoredAt
NaN == 0 - 1

\* a < b on numbers: false when either side is NaN
JsLess(a, b) == a # NaN /\ b # NaN /\ a < b

\* lines 215-227: depthMap, commits taken in topological order
RECURSIVE DepthRun(_, _, _)
DepthRun(c, depthMap, order) ==
    IF order = <<>> THEN depthMap
    ELSE LET id == Head(order)
         IN  IF ~Has(c, id) THEN DepthRun(c, depthMap, Tail(order))
             ELSE LET known == {k \in DOMAIN Get(c, id).parents :
                                   Get(c, id).parents[k] \in DOMAIN depthMap}
                      depth == IF known = {} THEN 0
                               ELSE CHOOSE m \in {depthMap[Get(c, id).parents[k]] + 1 : k \in known} :
                                      \A k \in known : depthMap[Get(c, id).parents[k]] + 1 <= m
                  IN  DepthRun(c, [x \in DOMAIN depthMap \cup {id} |->
                                      IF x = id THEN depth ELSE depthMap[x]],
                               Tail(order))

\* lines 230-235: minTime and maxTime, <<>> while still Infinity / -Infinity
RECURSIVE TimeRangeRun(_, _)
TimeRangeRun(r, rest) ==
    IF rest = <<>> THEN r
    ELSE LET at == Head(rest).authoredAt
         IN  TimeRangeRun(
                 [minTime |-> IF at # NaN /\ (r.minTime = <<>> \/ JsLess(at, r.minTime[1]))
                              THEN <<at>> ELSE r.minTime,
                  maxTime |-> IF at # NaN /\ (r.maxTime = <<>> \/ JsLess(r.maxTime[1], at))
                              THEN <<at>> ELSE r.maxTime],
                 Tail(rest))

NotANumber == [nan |-> TRUE, num |-> 0, den |-> 1]
Quotient(num, den) == [nan |-> FALSE, num |-> num, den |-> den]

\* lines 236 and 245: (commit.authoredAt - minTime) / (maxTime - minTime || 1).
\* With NaN on top the quotient is NaN; minTime is still Infinity only when
\* no commit has a number as authoredAt, and then every quotient is NaN.
TimePosition(at, r) ==
    IF at = NaN \/ r.minTime = <<>> THEN NotANumber
    ELSE Quotient(at - r.minTime[1],
                  IF r.maxTime[1] - r.minTime[1] = 0 THEN 1
                  ELSE r.maxTime[1] - r.minTime[1])

\* lines 208-253
generatePositionedNodes(g) ==
    LET depthMap == DepthRun(g.commits, NoLanes, g.topoOrder)
        r        == TimeRangeRun([minTime |-> <<>>, maxTime |-> <<>>], g.commits)
        kept     == SelectSeq(g.topoOrder, LAMBDA id : Has(g.commits, id))
    IN  [i \in DOMAIN kept |->
            [id    |-> kept[i],
             t     |-> TimePosition(Get(g.commits, kept[i]).authoredAt, r),
             lane  |-> IF kept[i] \in DOMAIN g.lanes THEN g.lanes[kept[i]] ELSE 0,
             depth |-> IF kept[i] \in DOMAIN depthMap THEN depthMap[kept[i]] ELSE 0]]

-----------------------------------------------------------------------------
(* Bytes and JavaScript numbers.                                           *)
(*                                                                         *)
(* A Uint8Array is a sequence of bytes; JavaScript index k is element      *)
(* k + 1.  An unsigned 32-bit or 64-bit quantity does not fit the checker's *)
(* integers, so it is kept as its big-endian bytes, and a JavaScript       *)
(* number holding a non-negative integer below 2^65 is kept as its 72      *)
(* binary digits, most significant first.                                  *)

Zeros(n) == [k \in 1..n |-> 0]

ByteBits(b) == [k \in 1..8 |-> (b \div (2 ^ (8 - k))) % 2]

BitsOf(bytes) == FlattenW([i \in DOMAIN bytes |-> ByteBits(bytes[i])], 8)

\* the number whose big-endian bytes are given (at most 8 of them), exactly
ExactNumber(bytes) == Zeros(72 - 8 * Len(bytes)) \o BitsOf(bytes)

RECURSIVE Increment(_)
Increment(bits) ==
    IF bits = <<>> THEN <<>>
    ELSE IF bits[Len(bits)] = 0
         THEN SubSeq(bits, 1, Len(bits) - 1) \o <<1>>
         ELSE Increment(SubSeq(bits, 1, Len(bits) - 1)) \o <<0>>

\* The IEEE-754 double nearest to a 72-digit integer (ties to even): the 53
\* digits from the leading one are kept, the rest is rounded away.
RoundToDouble(bits) ==
    LET ones == {k \in DOMAIN bits : bits[k] = 1}
    IN  IF ones = {} THEN bits
        ELSE LET m    == CHOOSE k \in ones : \A j \in ones : k <= j
                 last == m + 52
             IN  IF last >= Len(bits) THEN bits
                 ELSE LET kept == SubSeq(bits, 1, last)
                          rest == SubSeq(bits, last + 1, Len(bits))
                          up   == /\ rest[1] = 1
                                  /\ \/ \E k \in 2..Len(rest) : rest[k] = 1
                                     \/ kept[last] = 1
                      IN  (IF up THEN Increment(kept) ELSE kept) \o Zeros(Len(rest))

-----------------------------------------------------------------------------
(* parsePackIndex.                                                         *)

IdLen == 20
FanoutEntries == 256

\* 0xff744f63 and the version number 2, as getUint32 reads them
IdxMagic == <<255, 116, 79, 99>>
IdxVersion2 == <<0, 0, 0, 2>>

HexDigits == <<"0", "1", "2", "3", "4", "5", "6", "7",
               "8", "9", "a", "b", "c", "d", "e", "f">>

\* b.toString(16).padStart(2, '0') joined over the bytes: the hex id string,
\* kept as its sequence of characters
HexOf(bytes) ==
    FlattenW([i \in DOMAIN bytes |->
        <<HexDigits[(bytes[i] \div 16) + 1], HexDigits[(bytes[i] % 16) + 1]>>], 2)

\* DataView.getUint32(pos) can be read: the four bytes lie inside the view
CanGetUint32(data, pos) == pos >= 0 /\ pos + 4 <= Len(data)

\* DataView.getUint32(pos): the four big-endian bytes at pos
GetUint32(data, pos) == SubSeq(data, pos + 1, pos + 4)

\* the value of a 32-bit quantity whose high bit is masked off (x & 0x7fffffff)
Low31(u32) == (((u32[1] % 128) * 256 + u32[2]) * 256 + u32[3]) * 256 + u32[4]

\* offset32 & 0x80000000 is non-zero
HighBitSet(u32) == u32[1] >= 128

\* offsets.set(sha, value) on the map kept in insertion order
MapSet(m, key, value) ==
    IF \E i \in DOMAIN m : m[i].key = key
    THEN [i \in DOMAIN m |-> IF m[i].key = key THEN [key |-> key, value |-> value] ELSE m[i]]
    ELSE Append(m, [key |-> key, value |-> value])

MapHas(m, key) == \E i \in DOMAIN m : m[i].key = key
MapGet(m, key) == m[CHOOSE i \in DOMAIN m : m[i].key = key].value
MapKeys(m) == {m[i].key : i \in DOMAIN m}

\* Mutant: the large-offset slot is addressed with 4-byte entries.
LargeOffsetPosNarrow(largeOffsetTableStart, largeOffsetIndex) ==
    largeOffsetTableStart + largeOffsetIndex * 4

\* line 796
LargeOffsetPos(largeOffsetTableStart, largeOffsetIndex) ==
    largeOffsetTableStart + largeOffsetIndex * 8

\* lines 798-800: high * 0x100000000 + low, computed in double precision
Offset64(high, low) == RoundToDouble(ExactNumber(high \o low))

\* lines 783-805: entry i of the tables; a read outside the view throws
RECURSIVE IndexEntries(_, _, _, _)
IndexEntries(data, totalObjects, i, offsets) ==
    IF i >= totalObjects THEN [thrown |-> FALSE, offsets |-> offsets]
    ELSE
    LET shaTableStart         == 8 + FanoutEntries * 4
        shaTableEnd           == shaTableStart + totalObjects * IdLen
        crcTableEnd           == shaTableEnd + totalObjects * 4
        offsetTableStart      == crcTableEnd
        largeOffsetTableStart == offsetTableStart + totalObjects * 4
        shaOffset             == shaTableStart + i * IdLen
        sha  == HexOf(SubSeq(data, shaOffset + 1, shaOffset + IdLen))
    IN  IF ~CanGetUint32(data, offsetTableStart + i * 4)
        THEN [thrown |-> TRUE, offsets |-> <<>>]
        ELSE
        LET offset32 == GetUint32(data, offsetTableStart + i * 4)
        IN  IF HighBitSet(offset32)
            THEN LET largeOffsetPos == LargeOffsetPos(largeOffsetTableStart, Low31(offset32))
                 IN  IF ~CanGetUint32(data, largeOffsetPos) \/ ~CanGetUint32(data, largeOffsetPos + 4)
                     THEN [thrown |-> TRUE, offsets |-> <<>>]
                     ELSE IndexEntries(data, totalObjects, i + 1,
                              MapSet(offsets, sha,
                                     Offset64(GetUint32(data, largeOffsetPos),
                                              GetUint32(data, largeOffsetPos + 4))))
            ELSE IndexEntries(data, totalObjects, i + 1,
                              MapSet(offsets, sha, ExactNumber(offset32)))

\* lines 751-808.  The result is the offsets map, or thrown when a DataView
\* read leaves the buffer (a RangeError).
parsePackIndex(data) ==
    IF ~CanGetUint32(data, 0) THEN [thrown |-> TRUE, offsets |-> <<>>]
    ELSE IF GetUint32(data, 0) # IdxMagic THEN [thrown |-> FALSE, offsets |-> <<>>]
    ELSE IF ~CanGetUint32(data, 4) THEN [thrown |-> TRUE, offsets |-> <<>>]
    ELSE IF GetUint32(data, 4) # IdxVersion2 THEN [thrown |-> FALSE, offsets |-> <<>>]
    ELSE IF ~CanGetUint32(data, 8 + FanoutEntries * 4 - 4)
         THEN [thrown |-> TRUE, offsets |-> <<>>]
    ELSE LET count == GetUint32(data, 8 + FanoutEntries * 4 - 4)
         IN  IF HighBitSet(count) \/ Low31(count) > Len(data)
             \* more entries than the file has bytes: the first table read throws
             THEN [thrown |-> TRUE, offsets |-> <<>>]
             ELSE IndexEntries(data, Low31(count), 0, <<>>)

-----------------------------------------------------------------------------
(* applyDelta.                                                             *)

\* delta[pos] inside a bitwise expression: a read past the end is undefined,
\* which the operators &, | and << take as 0
ByteAt(delta, pos) == IF pos < Len(delta) THEN delta[pos + 1] ELSE 0

\* 32-bit integers as JavaScript's bitwise operators see them: 32 binary
\* digits, most significant (the sign) first; Int32Of takes 0 .. 2^31 - 1
Int32Of(n) == [k \in 1..32 |-> IF k = 1 THEN 0 ELSE (n \div (2 ^ (32 - k))) % 2]
ShiftLeft32(bits, shift) ==
    LET k == shift % 32 IN SubSeq(bits, k + 1, 32) \o Zeros(k)
Or32(a, b) == [k \in 1..32 |-> IF a[k] = 1 \/ b[k] = 1 THEN 1 ELSE 0]
IsNegative32(bits) == bits[1] = 1

RECURSIVE NatOfBits(_)
NatOfBits(bits) ==
    IF bits = <<>> THEN 0
    ELSE 2 * NatOfBits(SubSeq(bits, 1, Len(bits) - 1)) + bits[Len(bits)]

\* lines 951-956: the position behind the base-size varint
RECURSIVE SkipBaseSize(_, _)
SkipBaseSize(delta, pos) ==
    IF ByteAt(delta, pos) >= 128 THEN SkipBaseSize(delta, pos + 1) ELSE pos + 1

\* lines 959-965: resultSize |= (byte & 0x7f) << shift, until a byte without
\* the continuation bit
RECURSIVE ReadResultSize(_, _, _, _)
ReadResultSize(delta, pos, shift, size) ==
    LET byte  == ByteAt(delta, pos)
        size2 == Or32(size, ShiftLeft32(Int32Of(byte % 128), shift))
    IN  IF byte >= 128
        THEN ReadResultSize(delta, pos + 1, shift + 7, size2)
        ELSE [size |-> size2, pos |-> pos + 1]

\* readPackObject line 881: let shift = 4
HeaderShiftStart == 4

\* readPackObject lines 884-888: the loop over the continuation bytes; byte is
\* the byte read last.  Null when the pack ends inside the header.
RECURSIVE ReadHeaderSize(_, _, _, _, _)
ReadHeaderSize(packData, pos, byte, shift, size) ==
    IF byte < 128 THEN [ok |-> TRUE, size |-> size, pos |-> pos]
    ELSE IF pos >= Len(packData) THEN [ok |-> FALSE, size |-> size, pos |-> pos]
    ELSE LET next == packData[pos + 1]
         IN  ReadHeaderSize(packData, pos + 1, next, shift + 7,
                            Or32(size, ShiftLeft32(Int32Of(next % 128), shift)))

\* readPackObject lines 874-888: type = (byte >> 4) & 0x7, size = byte & 0x0f
\* and the continuation bytes.  size is the 32-bit integer the operators | and
\* << produce.
ReadObjectHeader(packData, offset) ==
    IF offset < 0 \/ offset >= Len(packData)
    THEN [ok |-> FALSE, type |-> 0, size |-> Int32Of(0), pos |-> offset]
    ELSE LET byte == packData[offset + 1]
             r    == ReadHeaderSize(packData, offset + 1, byte, HeaderShiftStart,
                                    Int32Of(byte % 16))
         IN  [ok |-> r.ok, type |-> (byte \div 16) % 8, size |-> r.size, pos |-> r.pos]

\* Uint8Array.prototype.slice(start, end), with the count end - start given
Slice(buf, start, count) ==
    LET len  == Len(buf)
        from == IF start < 0 THEN (IF len + start < 0 THEN 0 ELSE len + start)
                ELSE IF start > len THEN len ELSE start
        end  == IF start >= len THEN len
                ELSE IF start + count < 0
                     THEN (IF len + start + count < 0 THEN 0 ELSE len + start + count)
                     ELSE IF start + count > len THEN len ELSE start + count
    IN  SubSeq(buf, from + 1, end)

\* Uint8Array.prototype.set(source, offset) throws a RangeError
SetOverflows(target, src, offset) == offset + Len(src) > Len(target)

\* Uint8Array.prototype.set(source, offset)
SetAt(target, src, offset) ==
    SubSeq(target, 1, offset) \o src
    \o SubSeq(target, offset + Len(src) + 1, Len(target))

\* bit k of the instruction byte is set
CmdBit(cmd, k) == (cmd \div (2 ^ k)) % 2 = 1

\* the operand byte announced by bit k of a copy instruction at pos0, or 0:
\* the operand bytes present follow the instruction byte in bit order
Operand(delta, pos0, cmd, k) ==
    IF CmdBit(cmd, k)
    THEN ByteAt(delta, pos0 + Cardinality({j \in 0..(k - 1) : CmdBit(cmd, j)}))
    ELSE 0

\* lines 976-979: the four operand bytes or-ed at shifts 0, 8, 16 and 24; a
\* fourth byte of 128 or more sets the sign bit
CopyOffset(delta, pos0, cmd) ==
    LET b3 == Operand(delta, pos0, cmd, 3)
    IN  (IF b3 >= 128 THEN b3 - 256 ELSE b3) * 16777216
        + Operand(delta, pos0, cmd, 2) * 65536
        + Operand(delta, pos0, cmd, 1) * 256
        + Operand(delta, pos0, cmd, 0)

\* Mutant: a size field of zero copies nothing.
CopySizeZeroStays(delta, pos0, cmd) ==
    Operand(delta, pos0, cmd, 6) * 65536
    + Operand(delta, pos0, cmd, 5) * 256
    + Operand(delta, pos0, cmd, 4)

\* lines 980-983
CopySize(delta, pos0, cmd) ==
    LET size == Operand(delta, pos0, cmd, 6) * 65536
                + Operand(delta, pos0, cmd, 5) * 256
                + Operand(delta, pos0, cmd, 4)
    IN  IF size = 0 THEN 65536 ELSE size

\* lines 970-992: the instruction loop; thrown is a RangeError of result.set
RECURSIVE ApplyInstructions(_, _, _, _, _)
ApplyInstructions(base, delta, pos, res, resultPos) ==
    IF pos >= Len(delta) THEN [thrown |-> FALSE, data |-> res]
    ELSE
    LET cmd == delta[pos + 1]
    IN  IF cmd >= 128
        THEN LET copySize == CopySize(delta, pos + 1, cmd)
                 chunk    == Slice(base, CopyOffset(delta, pos + 1, cmd), copySize)
                 next     == pos + 1 + Cardinality({j \in 0..6 : CmdBit(cmd, j)})
             IN  IF SetOverflows(res, chunk, resultPos)
                 THEN [thrown |-> TRUE, data |-> <<>>]
                 ELSE ApplyInstructions(base, delta, next,
                                        SetAt(res, chunk, resultPos), resultPos + copySize)
        ELSE IF cmd > 0
        THEN LET chunk == Slice(delta, pos + 1, cmd)
             IN  IF SetOverflows(res, chunk, resultPos)
                 THEN [thrown |-> TRUE, data |-> <<>>]
                 ELSE ApplyInstructions(base, delta, pos + 1 + cmd,
                                        SetAt(res, chunk, resultPos), resultPos + cmd)
        ELSE ApplyInstructions(base, delta, pos + 1, res, resultPos)

\* lines 947-995.  new Uint8Array(resultSize) throws a RangeError for a
\* negative size and is zero-filled otherwise.
applyDelta(base, delta) ==
    LET header == ReadResultSize(delta, SkipBaseSize(delta, 0), 0, Int32Of(0))
    IN  IF IsNegative32(header.size)
        THEN [thrown |-> TRUE, data |-> <<>>]
        ELSE ApplyInstructions(base, delta, header.pos,
                               Zeros(NatOfBits(header.size)), 0)

-----------------------------------------------------------------------------
(* The deltas applyDelta is run on: a base, and a stream written from a    *)
(* list of copy and insert instructions the way git writes it.             *)

SmallBase == <<10, 20, 30>>

\* a base with offsets and sizes that take a second operand byte
MidBaseLen == 600
MidBase == [i \in 1..MidBaseLen |-> (i * 5) % 253]

\* a base long enough for a copy of 0x10000 bytes from offset 1
BigBaseLen == 65540
BigBase == [i \in 1..BigBaseLen |-> (i * 7) % 251]

CopyOf(offset, size, full) ==
    [op |-> "copy", offset |-> offset, size |-> size, full |-> full, data |-> <<>>]
InsertOf(data) ==
    [op |-> "insert", offset |-> 0, size |-> Len(data), full |-> FALSE, data |-> data]

\* the instructions explored against each base: every copy range lies inside
\* the base; full = every operand byte is written, also a zero one
InstrChoices(base) ==
    IF base = SmallBase
    THEN {CopyOf(0, 1, FALSE), CopyOf(0, 3, FALSE), CopyOf(1, 2, TRUE), CopyOf(2, 1, FALSE),
          InsertOf(<<7>>), InsertOf(<<8, 9>>)}
    ELSE IF base = MidBase
    THEN {CopyOf(256, 257, FALSE), CopyOf(0, 256, FALSE), CopyOf(255, 1, TRUE),
          InsertOf(<<7>>)}
    ELSE {CopyOf(0, 65536, FALSE), CopyOf(1, 65536, FALSE), CopyOf(65536, 2, TRUE),
          InsertOf(<<7>>)}

\* the size varint of the delta header: 7 bits per byte, low bits first
RECURSIVE SizeVarint(_)
SizeVarint(n) ==
    IF n < 128 THEN <<n>> ELSE <<128 + (n % 128)>> \o SizeVarint(n \div 128)

\* the bytes of one instruction; a copy size of 0x10000 is written as zero
\* unless every operand byte is written
InstrBytes(ins) ==
    IF ins.op = "insert" THEN <<Len(ins.data)>> \o ins.data
    ELSE LET size == IF ins.size = 65536 /\ ~ins.full THEN 0 ELSE ins.size
             ops  == <<ins.offset % 256, (ins.offset \div 256) % 256,
                       (ins.offset \div 65536) % 256, ins.offset \div 16777216,
                       size % 256, (size \div 256) % 256, size \div 65536>>
             used == {k \in 1..7 : ins.full \/ ops[k] # 0}
         IN  <<128 + SumSeq([k \in 1..7 |-> IF k \in used THEN 2 ^ (k - 1) ELSE 0])>>
             \o Flatten([k \in 1..7 |-> IF k \in used THEN <<ops[k]>> ELSE <<>>])

\* what the instructions say the result is
ExpectedOutput(base, instrs) ==
    Flatten([i \in DOMAIN instrs |->
                IF instrs[i].op = "copy"
                THEN SubSeq(base, instrs[i].offset + 1, instrs[i].offset + instrs[i].size)
                ELSE instrs[i].data])

\* the delta stream: base size, result size, the instructions
WriteDelta(base, instrs) ==
    SizeVarint(Len(base))
    \o SizeVarint(SumSeq([i \in DOMAIN instrs |-> instrs[i].size]))
    \o Flatten([i \in DOMAIN instrs |-> InstrBytes(instrs[i])])

DeltaIdle ==
    /\ deltaBase = <<>>
    /\ deltaInstrs = <<>>
    /\ deltaStream = <<>>
    /\ deltaResult = [thrown |-> FALSE, data |-> <<>>]
    /\ dpc = "idle"


-----------------------------------------------------------------------------
(* The object store of a ZIP import: readGitObject, loadPackIndex,         *)
(* readPackedObject, readPackObject, parseCommitObject.                    *)
(*                                                                         *)
(* An object id is a number.  A pack is its parsed index (the map          *)
(* parsePackIndex returns) and its data; the data is the sequence of the    *)
(* objects written in it, and the offset of an object is its place in that  *)
(* sequence.  A packed object is [type, inflates, base, data]: the type of  *)
(* its header, whether its compressed bytes inflate, the backreference      *)
(* (type 6) or the base id (type 7), and the inflated bytes.  The content   *)
(* of a commit is one byte per header line: a byte b > 0 is the line        *)
(* "parent b", the byte 0 a line that names no parent.                      *)

ObjectIds == 1..MaxObjects

\* an id under which the store holds nothing
MissingId == MaxObjects + 1

\* '' as an id, and undefined as an offset
NoId == 0
NoOffset == 0 - 1

\* the null that readGitObject, readPackedObject and readPackObject return
Null == [type |-> "null", data |-> <<>>]

\* readPackObject, line 871
MaxDeltaDepth == 50

\* types[type] || 'unknown', for the types that are no delta
TypeName(type) ==
    CASE type = 1 -> "commit"
      [] type = 2 -> "tree"
      [] type = 3 -> "blob"
      [] type = 4 -> "tag"
      [] OTHER -> "unknown"

\* applyDelta(baseResult.data, deltaData) under the try of readPackObject: a
\* null base gives null, and so does a RangeError of applyDelta
Resolved(baseResult, deltaData) ==
    IF baseResult = Null THEN Null
    ELSE LET applied == applyDelta(baseResult.data, deltaData)
         IN  IF applied.thrown THEN Null
             ELSE [type |-> baseResult.type, data |-> applied.data]

\* Mutant: a base id the index does not hold is taken to be the first object
\* of the pack.
BaseOffsetOrFirst(offsets, baseOid) ==
    IF MapHas(offsets, baseOid) THEN MapGet(offsets, baseOid) ELSE 1

\* line 922: packIndex.offsets.get(baseOid)
BaseOffset(offsets, baseOid) ==
    IF MapHas(offsets, baseOid) THEN MapGet(offsets, baseOid) ELSE NoOffset

\* the offset readPackObject calls itself with for the object at offset, 0
\* when it does not: the object is no delta, does not inflate, or its base
\* is outside the pack or unknown to the index
BaseOf(packData, offset, offsets) ==
    IF offset < 1 \/ offset > Len(packData) THEN 0
    ELSE LET entry == packData[offset]
             base  == IF entry.type = 6 THEN offset - entry.base
                      ELSE IF entry.type = 7 THEN BaseOffset(offsets, entry.base)
                      ELSE 0
         IN  IF entry.inflates /\ base >= 1 /\ base <= Len(packData) THEN base ELSE 0

\* BaseOf applied k times, as a function of the offset
RECURSIVE BaseAfter(_, _, _)
BaseAfter(packData, offsets, k) ==
    IF k = 0 THEN [x \in 0..Len(packData) |-> x]
    ELSE IF k % 2 = 0
    THEN LET half == BaseAfter(packData, offsets, k \div 2)
         IN  [x \in 0..Len(packData) |-> half[half[x]]]
    ELSE LET rest == BaseAfter(packData, offsets, k - 1)
         IN  [x \in 0..Len(packData) |-> rest[BaseOf(packData, x, offsets)]]

\* Mutant: the call at depth 50 already returns null.
ChainTooDeepByOne(packData, offset, offsets, depth) ==
    /\ offset >= 1
    /\ offset <= Len(packData)
    /\ BaseAfter(packData, offsets, MaxDeltaDepth - depth)[offset] # 0

\* the chain of bases of the object at offset, read at depth, reaches the
\* call at depth 51, whose null (line 871) every caller passes on
ChainTooDeep(packData, offset, offsets, depth) ==
    /\ offset >= 1
    /\ offset <= Len(packData)
    /\ BaseAfter(packData, offsets, MaxDeltaDepth + 1 - depth)[offset] # 0

\* lines 861-942.  The bounds check of line 874 is on the places of the pack.
RECURSIVE readPackObject(_, _, _, _)
readPackObject(packData, offset, offsets, depth) ==
    IF depth > MaxDeltaDepth \/ ChainTooDeep(packData, offset, offsets, depth) THEN Null
    ELSE IF offset < 1 \/ offset > Len(packData) THEN Null
    ELSE
    LET entry == packData[offset]
    IN  IF ~entry.inflates THEN Null
        ELSE IF entry.type = 6
        THEN Resolved(readPackObject(packData, offset - entry.base, offsets, depth + 1),
                      entry.data)
        ELSE IF entry.type = 7
        THEN LET baseOffset == BaseOffset(offsets, entry.base)
             IN  IF baseOffset = NoOffset THEN Null
                 ELSE Resolved(readPackObject(packData, baseOffset, offsets, depth + 1),
                               entry.data)
        ELSE [type |-> TypeName(entry.type), data |-> entry.data]

\* lines 724-726: allOffsets.set(sha, {packPath, offset}) for one index
RECURSIVE SetAllOffsets(_, _, _)
SetAllOffsets(allOffsets, idx, packPath) ==
    IF idx = <<>> THEN allOffsets
    ELSE SetAllOffsets(MapSet(allOffsets, Head(idx).key,
                              [packPath |-> packPath, offset |-> Head(idx).value]),
                       Tail(idx), packPath)

\* lines 716-728: the index files in directory order
RECURSIVE MergeIndexes(_, _, _)
MergeIndexes(packs, p, allOffsets) ==
    IF p > Len(packs) THEN allOffsets
    ELSE MergeIndexes(packs, p + 1, SetAllOffsets(allOffsets, packs[p].idx, p))

\* lines 705-746; loaded is FALSE for the null returned without pack files
loadPackIndex(packs) ==
    LET allOffsets == MergeIndexes(packs, 1, <<>>)
    IN  [loaded |-> packs # <<>>,
         offsets |-> [i \in DOMAIN allOffsets |->
                         [key |-> allOffsets[i].key, value |-> allOffsets[i].value.offset]],
         extendedOffsets |-> allOffsets]

\* lines 813-839; the fallback of lines 829-838 finds no id that
\* extendedOffsets lacks, the two maps having the same keys
readPackedObject(packs, oid, packIndex) ==
    IF MapHas(packIndex.extendedOffsets, oid)
    THEN LET extendedInfo == MapGet(packIndex.extendedOffsets, oid)
         IN  readPackObject(packs[extendedInfo.packPath].data, extendedInfo.offset,
                            packIndex.offsets, 0)
    ELSE Null

\* the loose file of an id: absent, corrupt (unzlibSync throws), nonul (no
\* NUL ends the header) or object
AbsentFile == [state |-> "absent", type |-> "", data |-> <<>>]
LooseFile(objects, oid) == IF oid \in DOMAIN objects THEN objects[oid] ELSE AbsentFile

\* lines 663-694
readGitObject(files, oid, packIndex) ==
    LET loose == LooseFile(files.objects, oid)
    IN  IF loose.state = "object" THEN [type |-> loose.type, data |-> loose.data]
        ELSE IF loose.state = "nonul" THEN Null
        ELSE IF packIndex.loaded THEN readPackedObject(files.packs, oid, packIndex)
        ELSE Null

\* lines 1000-1035: the parent lines in order.  authoredAt is read from the
\* author line, which the explored commits all carry with the same time.
parseCommitObject(data) ==
    [parents |-> SelectSeq(data, LAMBDA b : b # 0), authoredAt |-> 1000]

-----------------------------------------------------------------------------
(* Refs and the default head.                                              *)

\* branch names, in the order of their UTF-16 code units
NameOrder == <<"HEAD", "alpha", "main", "master", "zeta">>
BranchNames == {"alpha", "main", "master", "zeta"}

\* undefined as a branch name; like '' it is falsy
NoBranch == ""

\* a full ref name refs/<ns>/<name>
RefName(ns, name) == [ns |-> ns, name |-> name]
NoRef == RefName("", "")

MapValues(m) == [i \in DOMAIN m |-> m[i].value]

\* readHeadInfo, lines 1059-1070
readHeadInfo(head) ==
    IF head.kind = "ref" THEN [present |-> TRUE, ref |-> head.ref, sha |-> NoId]
    ELSE IF head.kind = "sha" THEN [present |-> TRUE, ref |-> NoRef, sha |-> head.sha]
    ELSE [present |-> FALSE, ref |-> NoRef, sha |-> NoId]

\* a trimmed line of packed-refs: lead is "#" or "^" when the line starts
\* with that character, and "" for a line "<sha> <ref>"
PackedLine(lead, ref, sha) == [lead |-> lead, ref |-> ref, sha |-> sha]

\* parsePackedRefs, lines 1046-1057
RECURSIVE parsePackedRefs(_, _)
parsePackedRefs(lines, map) ==
    IF lines = <<>> THEN map
    ELSE parsePackedRefs(Tail(lines),
                         IF Head(lines).lead \in {"#", "^"} THEN map
                         ELSE MapSet(map, Head(lines).ref, Head(lines).sha))

\* lines 524-532: the packed refs under refs/heads/ enter refs by branch name
RECURSIVE PackedHeads(_, _)
PackedHeads(packed, map) ==
    IF packed = <<>> THEN map
    ELSE PackedHeads(Tail(packed),
                     IF Head(packed).key.ns = "heads"
                     THEN MapSet(map, Head(packed).key.name, Head(packed).value)
                     ELSE map)

\* remainder.split('/')[0], line 1150, on the paths below .git/refs/heads
\* that the model uses
FirstPart(path) == IF path = "feature/x" THEN "feature" ELSE path

\* fs.readdir('.git/refs/heads'), lines 1136-1163: the first component of
\* every file path below the directory, each once, in file order
RECURSIVE Readdir(_, _)
Readdir(looseFiles, entries) ==
    IF looseFiles = <<>> THEN entries
    ELSE Readdir(Tail(looseFiles),
                 IF FirstPart(Head(looseFiles).name) \in Range(entries) THEN entries
                 ELSE Append(entries, FirstPart(Head(looseFiles).name)))

\* readLooseRefs, lines 648-653: the entries of the directory that are
\* files holding 40 hex digits; an entry that is a directory does not read
RECURSIVE ReadLooseRefs(_, _, _)
ReadLooseRefs(entries, looseFiles, map) ==
    IF entries = <<>> THEN map
    ELSE LET name == Head(entries)
             file == SelectSeq(looseFiles, LAMBDA f : f.name = name)
         IN  ReadLooseRefs(Tail(entries), looseFiles,
                           IF file # <<>> /\ file[1].valid
                           THEN MapSet(map, name, file[1].sha)
                           ELSE map)

\* readLooseRefs, lines 644-658, and lines 536-538: the loose refs go into
\* refs over the packed ones
LooseHeads(looseFiles, map) == ReadLooseRefs(Readdir(looseFiles, <<>>), looseFiles, map)

\* lines 541-544: HEAD resolved through the loose file of its ref, whatever
\* it holds, else through packed-refs
ResolvedHeadSha(files, headInfo, packed) ==
    IF headInfo.present /\ headInfo.ref # NoRef /\ headInfo.sha = NoId
    THEN IF headInfo.ref.ns = "heads"
            /\ \E i \in DOMAIN files.looseRefs : files.looseRefs[i].name = headInfo.ref.name
         THEN files.looseRefs[CHOOSE i \in DOMAIN files.looseRefs :
                                 files.looseRefs[i].name = headInfo.ref.name].sha
         ELSE IF MapHas(packed, headInfo.ref) THEN MapGet(packed, headInfo.ref)
         ELSE NoId
    ELSE headInfo.sha

\* lines 519-548: the refs map of parseFromFS
RefsOf(files) ==
    LET headInfo == readHeadInfo(files.head)
        packed   == parsePackedRefs(files.packedRefs, <<>>)
        merged   == LooseHeads(files.looseRefs, PackedHeads(packed, <<>>))
        headSha  == ResolvedHeadSha(files, headInfo, packed)
    IN  IF merged = <<>> /\ headInfo.present /\ headSha # NoId
        THEN <<[key |-> "HEAD", value |-> headSha]>>
        ELSE merged

\* lines 558-569
DefaultBranchOf(files, r) ==
    LET headInfo == readHeadInfo(files.head)
    IN  IF headInfo.present /\ headInfo.ref.ns = "heads"
        THEN IF MapHas(r, headInfo.ref.name) THEN headInfo.ref.name ELSE "main"
        ELSE IF MapHas(r, "main") THEN "main"
        ELSE IF MapHas(r, "master") THEN "master"
        ELSE IF r # <<>> THEN r[1].key
        ELSE "main"

\* Mutant: master is asked for before main.
DefaultHeadMasterFirst(r, branch, order) ==
    IF branch # NoBranch /\ MapHas(r, branch) THEN MapGet(r, branch)
    ELSE IF MapHas(r, "master") THEN MapGet(r, "master")
    ELSE IF MapHas(r, "main") THEN MapGet(r, "main")
    ELSE IF r # <<>> THEN r[1].value
    ELSE IF order # <<>> THEN order[Len(order)]
    ELSE NoId

\* Mutant: without main and master the last ref is taken.
DefaultHeadLastRef(r, branch, order) ==
    IF branch # NoBranch /\ MapHas(r, branch) THEN MapGet(r, branch)
    ELSE IF MapHas(r, "main") THEN MapGet(r, "main")
    ELSE IF MapHas(r, "master") THEN MapGet(r, "master")
    ELSE IF r # <<>> THEN r[Len(r)].value
    ELSE IF order # <<>> THEN order[Len(order)]
    ELSE NoId

\* buildRepoGraph, lines 300-311
DefaultHead(r, branch, order) ==
    IF branch # NoBranch /\ MapHas(r, branch) THEN MapGet(r, branch)
    ELSE IF MapHas(r, "main") THEN MapGet(r, "main")
    ELSE IF MapHas(r, "master") THEN MapGet(r, "master")
    ELSE IF r # <<>> THEN r[1].value
    ELSE IF order # <<>> THEN order[Len(order)]
    ELSE NoId

\* buildRepoGraph, lines 290-321 (the metrics are left out)
buildRepoGraph(c, r, branch) ==
    LET order == buildTopoOrder(c)
    IN  [commits |-> c, heads |-> r, defaultHead |-> DefaultHead(r, branch, order),
         topoOrder |-> order, lanes |-> assignLanes(c, order)]

\* commits.set(id, node)
CommitsSet(c, node) ==
    IF Has(c, node.id)
    THEN [i \in DOMAIN c |-> IF c[i].id = node.id THEN node ELSE c[i]]
    ELSE Append(c, node)

\* lines 599-604: the names of the refs that point at oid, in map order
BranchHintsOf(r, oid) ==
    LET hits == SelectSeq(r, LAMBDA e : e.value = oid)
    IN  [i \in DOMAIN hits |-> hits[i].key]

NoGraph == [commits |-> <<>>, heads |-> <<>>, defaultHead |-> NoId,
            topoOrder |-> <<>>, lanes |-> NoLanes]
Returned(g) == [kind |-> "graph", graph |-> g, error |-> ""]
Thrown(message) == [kind |-> "error", graph |-> NoGraph, error |-> message]
Pending == [kind |-> "none", graph |-> NoGraph, error |-> ""]

\* Mutant: only the first parent is queued.
QueueFirstParent(stack, parents, seen) ==
    IF parents # <<>> /\ Head(parents) \notin seen THEN Append(stack, Head(parents)) ELSE stack

\* lines 617-622: the parents not yet visited are pushed in order
RECURSIVE QueueParents(_, _, _)
QueueParents(stack, parents, seen) ==
    IF parents = <<>> THEN stack
    ELSE QueueParents(IF Head(parents) \notin seen THEN Append(stack, Head(parents)) ELSE stack,
                      Tail(parents), seen)

\* parseGitHubRepo, line 115: maxCommits = 1000
DefaultMaxCommits == 1000

\* parseGitHubRepo, lines 170-177: refs, and the default branch the API named
\* or else the last branch called main or master
RECURSIVE BranchesOf(_, _)
BranchesOf(branches, st) ==
    IF branches = <<>> THEN st
    ELSE BranchesOf(Tail(branches),
            [refs |-> MapSet(st.refs, Head(branches).name, Head(branches).sha),
             defaultBranch |->
                 IF st.fromApi = NoBranch /\ Head(branches).name \in {"main", "master"}
                 THEN Head(branches).name ELSE st.defaultBranch,
             fromApi |-> st.fromApi])

\* parseGitHubRepo, lines 214-231: the commits of one page
RECURSIVE PageCommits(_, _, _, _)
PageCommits(page, c, r, maxCommits) ==
    IF page = <<>> THEN c
    ELSE IF Has(c, Head(page).sha) THEN PageCommits(Tail(page), c, r, maxCommits)
    ELSE IF Len(c) >= maxCommits THEN c
    ELSE PageCommits(Tail(page),
                     CommitsSet(c, [id |-> Head(page).sha, parents |-> Head(page).parents,
                                    authoredAt |-> Head(page).date,
                                    branchHints |-> BranchHintsOf(r, Head(page).sha)]),
                     r, maxCommits)

\* parseGitHubRepo, lines 111-254, for a repository whose commits fit one
\* page; a response that is not ok throws
parseGitHubRepo(api) ==
    IF ~api.repoOk THEN Thrown("Failed to fetch repository")
    ELSE IF ~api.branchesOk THEN Thrown("Failed to fetch branches")
    ELSE
    LET st == BranchesOf(api.branches,
                         [refs |-> <<>>,
                          defaultBranch |-> IF api.default_branch # NoBranch
                                            THEN api.default_branch ELSE "main",
                          fromApi |-> api.default_branch])
        c  == PageCommits(api.commits, <<>>, st.refs, DefaultMaxCommits)
    IN  IF ~api.commitsOk THEN Thrown("Failed to fetch commits")
        ELSE IF c = <<>> THEN Thrown("No commits found in repository")
        ELSE Returned(buildRepoGraph(c, st.refs, st.defaultBranch))

\* validateExport, lines 54-74
validateExport(data) ==
    /\ data.isObject
    /\ data.nameIsString
    /\ data.commitsIsArray
    /\ \A i \in DOMAIN data.commits : i <= 10 => data.commits[i].wellTyped

\* lines 88-98: commits.set(id, node) for every raw commit in order
RECURSIVE ParsedCommits(_, _)
ParsedCommits(raws, c) ==
    IF raws = <<>> THEN c
    ELSE ParsedCommits(Tail(raws),
                       CommitsSet(c, [id |-> Head(raws).sha, parents |-> Head(raws).parents,
                                      authoredAt |-> Head(raws).date, branchHints |-> <<>>]))

\* lines 100-105: refs.set(name, sha) for the entries of data.refs
RECURSIVE ExportRefs(_, _)
ExportRefs(entries, r) ==
    IF entries = <<>> THEN r
    ELSE ExportRefs(Tail(entries), MapSet(r, Head(entries).name, Head(entries).sha))

\* importLocalExport, lines 79-108
importLocalExport(data) ==
    IF ~data.parses THEN Thrown("SyntaxError")
    ELSE IF ~validateExport(data) THEN Thrown("Invalid gitsonar.json format")
    ELSE Returned(buildRepoGraph(ParsedCommits(data.commits, <<>>),
                                 ExportRefs(data.refs, <<>>), data.defaultBranch))

HeadFile(kind, ref, sha) == [kind |-> kind, ref |-> ref, sha |-> sha]

NoFiles == [head |-> HeadFile("missing", NoRef, NoId), packedRefs |-> <<>>, looseRefs |-> <<>>,
            objects |-> <<>>, packs |-> <<>>]
NoSource == [kind |-> "none"]

ImportIdle ==
    /\ fs = NoFiles
    /\ source = NoSource
    /\ refs = <<>>
    /\ defaultBranch = NoBranch
    /\ visited = {}
    /\ toVisit = <<>>
    /\ failedReads = <<>>
    /\ walked = <<>>
    /\ decoded = [oid |-> NoId, result |-> Null]
    /\ outcome = Pending
    /\ mpc = "idle"

-----------------------------------------------------------------------------
(* The application store (useGraphStore).                                  *)
(*                                                                         *)
(* null is <<>> for graph, NoId for selectedId (like '' it is falsy), and  *)
(* "" for error, currentRepoPath, currentRepoProvider and authToken.  The  *)
(* store functions take the state and return the state after their set()   *)
(* call, so that a handler is the composition of its calls in order.  The  *)
(* fields of the view (theme, overlays, poster settings) are left out.     *)

NoText == ""

\* the state create() returns, lines 168-195
InitialStore ==
    [graph |-> <<>>, nodes |-> <<>>, edges |-> <<>>, selectedId |-> NoId,
     isLoading |-> FALSE, error |-> NoText, hasMoreCommits |-> FALSE,
     currentRepoPath |-> NoText, currentRepoProvider |-> NoText,
     authToken |-> NoText, loadedCommitCount |-> 0]

\* get()
StoreState ==
    [graph |-> graph, nodes |-> nodes, edges |-> edges, selectedId |-> selectedId,
     isLoading |-> isLoading, error |-> error, hasMoreCommits |-> hasMoreCommits,
     currentRepoPath |-> currentRepoPath, currentRepoProvider |-> currentRepoProvider,
     authToken |-> authToken, loadedCommitCount |-> loadedCommitCount]

\* the store after the calls of a handler
StoreBecomes(s) ==
    /\ graph' = s.graph
    /\ nodes' = s.nodes
    /\ edges' = s.edges
    /\ selectedId' = s.selectedId
    /\ isLoading' = s.isLoading
    /\ error' = s.error
    /\ hasMoreCommits' = s.hasMoreCommits
    /\ currentRepoPath' = s.currentRepoPath
    /\ currentRepoProvider' = s.currentRepoProvider
    /\ authToken' = s.authToken
    /\ loadedCommitCount' = s.loadedCommitCount

UiIdle ==
    /\ graph = InitialStore.graph
    /\ selectedId = InitialStore.selectedId
    /\ isLoading = InitialStore.isLoading
    /\ error = InitialStore.error
    /\ hasMoreCommits = InitialStore.hasMoreCommits
    /\ currentRepoPath = InitialStore.currentRepoPath
    /\ currentRepoProvider = InitialStore.currentRepoProvider
    /\ authToken = InitialStore.authToken
    /\ loadedCommitCount = InitialStore.loadedCommitCount
    /\ imports = <<>>

\* setGraph, lines 197-209
setGraph(s, g) ==
    [s EXCEPT !.graph = <<g>>,
              !.nodes = generatePositionedNodes(g),
              !.edges = generateEdges(g.commits),
              !.selectedId = g.defaultHead,
              !.error = NoText,
              !.isLoading = FALSE,
              !.loadedCommitCount = Len(g.commits)]

\* clearGraph, lines 210-228
clearGraph(s) ==
    [s EXCEPT !.graph = <<>>,
              !.nodes = <<>>,
              !.edges = <<>>,
              !.selectedId = NoId,
              !.error = NoText,
              !.isLoading = FALSE,
              !.hasMoreCommits = FALSE,
              !.currentRepoPath = NoText,
              !.currentRepoProvider = NoText,
              !.loadedCommitCount = 0]

\* selectCommit, lines 229-231
selectCommit(s, id) == [s EXCEPT !.selectedId = id]

\* nodes.findIndex((n) => n.id === selectedId), 0 standing for -1
FindIndex(ns, id) ==
    IF \E i \in DOMAIN ns : ns[i].id = id
    THEN CHOOSE i \in DOMAIN ns : ns[i].id = id /\ \A j \in 1..(i - 1) : ns[j].id # id
    ELSE 0

\* navigateNext, lines 232-250
navigateNext(s) ==
    IF s.selectedId = NoId \/ s.nodes = <<>> THEN s
    ELSE LET currentIdx == FindIndex(s.nodes, s.selectedId)
         IN  IF currentIdx = 0 THEN s
             ELSE LET currentLane == s.nodes[currentIdx].lane
                      later == {i \in (currentIdx + 1)..Len(s.nodes) :
                                   s.nodes[i].lane = currentLane}
                  IN  IF later # {}
                      THEN [s EXCEPT !.selectedId =
                               s.nodes[CHOOSE i \in later : \A j \in later : i <= j].id]
                      ELSE IF currentIdx < Len(s.nodes)
                      THEN [s EXCEPT !.selectedId = s.nodes[currentIdx + 1].id]
                      ELSE s

\* navigatePrev, lines 251-269
navigatePrev(s) ==
    IF s.selectedId = NoId \/ s.nodes = <<>> THEN s
    ELSE LET currentIdx == FindIndex(s.nodes, s.selectedId)
         IN  IF currentIdx = 0 THEN s
             ELSE LET currentLane == s.nodes[currentIdx].lane
                      earlier == {i \in 1..(currentIdx - 1) : s.nodes[i].lane = currentLane}
                  IN  IF earlier # {}
                      THEN [s EXCEPT !.selectedId =
                               s.nodes[CHOOSE i \in earlier : \A j \in earlier : i >= j].id]
                      ELSE IF currentIdx > 1
                      THEN [s EXCEPT !.selectedId = s.nodes[currentIdx - 1].id]
                      ELSE s

\* Math.abs(n.t - currentNode.t); the nodes of one graph have the same
\* denominator, so the distance is kept as its numerator
Distance(a, b) ==
    IF a.nan \/ b.nan THEN NaN
    ELSE IF a.num >= b.num THEN a.num - b.num ELSE b.num - a.num

\* lines 285-295: the candidate closest in t, the first one on a tie
RECURSIVE ClosestRun(_, _, _)
ClosestRun(closest, rest, currentNode) ==
    IF rest = <<>> THEN closest
    ELSE ClosestRun(IF JsLess(Distance(Head(rest).t, currentNode.t),
                              Distance(closest.t, currentNode.t))
                    THEN Head(rest) ELSE closest,
                    Tail(rest), currentNode)

\* navigateLane, lines 270-298
navigateLane(s, direction) ==
    IF s.selectedId = NoId \/ s.nodes = <<>> THEN s
    ELSE LET currentIdx == FindIndex(s.nodes, s.selectedId)
         IN  IF currentIdx = 0 THEN s
             ELSE LET currentNode == s.nodes[currentIdx]
                      targetLane  == IF direction = "up" THEN currentNode.lane - 1
                                     ELSE currentNode.lane + 1
                      candidates  == SelectSeq(s.nodes, LAMBDA n : n.lane = targetLane)
                  IN  IF candidates = <<>> THEN s
                      ELSE [s EXCEPT !.selectedId =
                               ClosestRun(candidates[1], candidates, currentNode).id]

\* setLoading, lines 326-328
setLoading(s, loading) == [s EXCEPT !.isLoading = loading]

\* setError, lines 329-331
setError(s, e) == [s EXCEPT !.error = e, !.isLoading = FALSE]

\* setRepoPath, lines 332-334
setRepoPath(s, path, provider, hasMore) ==
    [s EXCEPT !.currentRepoPath = path, !.currentRepoProvider = provider,
              !.hasMoreCommits = hasMore]

\* setAuthToken, lines 335-338
setAuthToken(s, token) == [s EXCEPT !.authToken = token]



-----------------------------------------------------------------------------
(* The pack indexes parsePackIndex is run on: well-formed version-2 files  *)
(* written from a sorted hash table, an offset table and a large-offset    *)
(* table.                                                                  *)

\* a 20-byte object id
IdBytes(first, last) == <<first>> \o [k \in 1..(IdLen - 2) |-> 171] \o <<last>>

\* the ids an index may hold, in ascending order
IdChoices == <<IdBytes(0, 1), IdBytes(26, 255), IdBytes(255, 16)>>

\* 4-byte offset entries with the high bit clear: 12 and 2^31 - 1
DirectOffsets == {<<0, 0, 0, 12>>, <<127, 255, 255, 255>>}

\* the 4-byte entry that refers to slot j of the large-offset table
LargeRef(j) == <<128, 0, 0, j>>

\* 8-byte entries: 2^32, 2^53 - 1, 2^53 + 1 and 2^64 - 1
LargeChoices ==
    {<<0, 0, 0, 1, 0, 0, 0, 0>>,
     <<0, 31, 255, 255, 255, 255, 255, 255>>,
     <<0, 32, 0, 0, 0, 0, 0, 1>>,
     <<255, 255, 255, 255, 255, 255, 255, 255>>}

LargeTables == UNION {[1..n -> LargeChoices] : n \in 0..MaxLargeOffsets}

\* strictly ascending selections of the id choices
IdSelections ==
    {sel \in UNION {[1..n -> DOMAIN IdChoices] : n \in 0..MaxIdxObjects} :
        \A i \in DOMAIN sel : \A j \in DOMAIN sel : i < j => sel[i] < sel[j]}

EntryTables(large) ==
    UNION {[DOMAIN sel ->
               {[id |-> id, offset32 |-> o] :
                   id \in Range(IdChoices),
                   o \in DirectOffsets \cup {LargeRef(j - 1) : j \in DOMAIN large}}]
           : sel \in IdSelections}

SortedEntryTables(large) ==
    {t \in EntryTables(large) :
        \E sel \in IdSelections :
            /\ DOMAIN sel = DOMAIN t
            /\ \A i \in DOMAIN t : t[i].id = IdChoices[sel[i]]}

U32Bytes(n) == <<0, 0, n \div 256, n % 256>>

\* the file git writes for the tables: header, fan-out, ids, CRCs, offsets,
\* large offsets, and the two trailing checksums
WriteIndex(entries, large) ==
    IdxMagic \o IdxVersion2
    \o FlattenW([k \in 1..FanoutEntries |->
           U32Bytes(Cardinality({i \in DOMAIN entries : entries[i].id[1] <= k - 1}))], 4)
    \o FlattenW([i \in DOMAIN entries |-> entries[i].id], IdLen)
    \o FlattenW([i \in DOMAIN entries |-> <<222, 173, 190, 239>>], 4)
    \o FlattenW([i \in DOMAIN entries |-> entries[i].offset32], 4)
    \o FlattenW(large, 8)
    \o Zeros(2 * IdLen)

HeaderIdle ==
    /\ packHeader = <<>>
    /\ headerRead = <<>>

IdxIdle ==
    /\ idxEntries = <<>>
    /\ idxLarge = <<>>
    /\ idxData = <<>>
    /\ idxResult = [thrown |-> FALSE, offsets |-> <<>>]
    /\ ipc = "idle"
    /\ HeaderIdle

InitIdx ==
    /\ UiIdle
    /\ GraphIdle
    /\ DeltaIdle
    /\ ImportIdle
    /\ idxLarge \in LargeTables
    /\ idxEntries \in SortedEntryTables(idxLarge)
    /\ idxData = WriteIndex(idxEntries, idxLarge)
    /\ idxResult = [thrown |-> FALSE, offsets |-> <<>>]
    /\ ipc = "start"
    /\ HeaderIdle

\* loadPackIndex line 721: offsets = parsePackIndex(idxData)
ParseIndex ==
    /\ ipc = "start"
    /\ idxResult' = parsePackIndex(idxData)
    /\ ipc' = "done"
    /\ UNCHANGED <<idxEntries, idxLarge, idxData, packHeader, headerRead>>
    /\ UNCHANGED <<gvars, dvars, mvars, uvars>>

NextIdx == ParseIndex

SpecIdx == InitIdx /\ [][NextIdx]_vars

-----------------------------------------------------------------------------
(* Pack indexes of other versions.                                         *)

\* the version-1 file for the tables: no header; the fan-out, then one
\* 24-byte entry (offset, id) per object, and the two trailing checksums
WriteIndexV1(entries) ==
    FlattenW([k \in 1..FanoutEntries |->
        U32Bytes(Cardinality({i \in DOMAIN entries : entries[i].id[1] <= k - 1}))], 4)
    \o FlattenW([i \in DOMAIN entries |-> entries[i].offset32 \o entries[i].id], 4 + IdLen)
    \o Zeros(2 * IdLen)

\* the version-2 layout under the magic number and another version number
WriteIndexAs(version, entries, large) ==
    LET v2 == WriteIndex(entries, large)
    IN  IdxMagic \o version \o SubSeq(v2, 9, Len(v2))

InitIdxVersion ==
    /\ UiIdle
    /\ GraphIdle
    /\ DeltaIdle
    /\ ImportIdle
    /\ idxLarge \in LargeTables
    /\ idxEntries \in SortedEntryTables(idxLarge)
    /\ \/ idxLarge = <<>> /\ idxData = WriteIndexV1(idxEntries)
       \/ \E version \in {<<0, 0, 0, 1>>, <<0, 0, 0, 3>>} :
              idxData = WriteIndexAs(version, idxEntries, idxLarge)
    /\ idxResult = [thrown |-> FALSE, offsets |-> <<>>]
    /\ ipc = "start"
    /\ HeaderIdle

SpecIdxVersion == InitIdxVersion /\ [][NextIdx]_vars

-----------------------------------------------------------------------------
(* Reading object headers.                                                 *)
(*                                                                         *)
(* A size is kept as its binary digits, least significant first, because   *)
(* sizes of 2^31 and more do not fit the checker's integers.               *)

\* digit k (from 0) of a size
DigitOf(size, k) == IF k < Len(size) THEN size[k + 1] ELSE 0

\* the sizes with at most two digits set
SparseSizes ==
    {[k \in 1..MaxSizeBits |-> IF k = i \/ k = j THEN 1 ELSE 0] :
        i \in 0..MaxSizeBits, j \in 0..MaxSizeBits}

\* the number of continuation bytes the size needs
ContinuationBytes(size) ==
    LET high == {k \in 4..(Len(size) - 1) : DigitOf(size, k) = 1}
    IN  IF high = {} THEN 0
        ELSE ((CHOOSE k \in high : \A m \in high : m <= k) - 4) \div 7 + 1

\* The object header of the pack format: the continuation bit, three type
\* bits and the low four size bits, then seven size bits per byte.
WriteHeader(type, size) ==
    LET n == ContinuationBytes(size)
        low == DigitOf(size, 0) + 2 * DigitOf(size, 1) + 4 * DigitOf(size, 2)
                 + 8 * DigitOf(size, 3)
    IN  <<(IF n > 0 THEN 128 ELSE 0) + 16 * type + low>>
        \o [j \in 1..n |->
               (IF j < n THEN 128 ELSE 0)
               + SumSeq([b \in 1..7 |-> DigitOf(size, 4 + 7 * (j - 1) + (b - 1)) * 2 ^ (b - 1)])]

InitHeader ==
    /\ UiIdle
    /\ GraphIdle
    /\ DeltaIdle
    /\ ImportIdle
    /\ idxEntries = <<>>
    /\ idxLarge = <<>>
    /\ idxData = <<>>
    /\ idxResult = [thrown |-> FALSE, offsets |-> <<>>]
    /\ ipc = "idle"
    /\ \E type \in 1..7 : \E size \in SparseSizes :
          packHeader = <<[type |-> type, size |-> size, data |-> WriteHeader(type, size)]>>
    /\ headerRead = <<>>

\* readPackObject lines 874-888 at offset 0 of a pack that starts with the header
ReadHeader ==
    /\ packHeader # <<>>
    /\ headerRead = <<>>
    /\ headerRead' = <<ReadObjectHeader(packHeader[1].data, 0)>>
    /\ UNCHANGED <<idxEntries, idxLarge, idxData, idxResult, ipc, packHeader>>
    /\ UNCHANGED <<gvars, dvars, mvars, uvars>>

NextHeader == ReadHeader

SpecHeader == InitHeader /\ [][NextHeader]_vars

-----------------------------------------------------------------------------
(* Applying a delta.                                                       *)

InitDelta ==
    /\ UiIdle
    /\ GraphIdle
    /\ IdxIdle
    /\ ImportIdle
    /\ deltaBase \in {SmallBase, MidBase, BigBase}
    /\ \E n \in 0..MaxInstrs : deltaInstrs \in [1..n -> InstrChoices(deltaBase)]
    /\ deltaStream = WriteDelta(deltaBase, deltaInstrs)
    /\ deltaResult = [thrown |-> FALSE, data |-> <<>>]
    /\ dpc = "start"

\* readPackObject, line 933: applyDelta(baseObj.data, deltaData)
ApplyDelta ==
    /\ dpc = "start"
    /\ deltaResult' = applyDelta(deltaBase, deltaStream)
    /\ dpc' = "done"
    /\ UNCHANGED <<deltaBase, deltaInstrs, deltaStream>>
    /\ UNCHANGED <<gvars, ivars, mvars, uvars>>

NextDelta == ApplyDelta

SpecDelta == InitDelta /\ [][NextDelta]_vars

-----------------------------------------------------------------------------
(* Applying a corrupt delta: the declared result size differs from what    *)
(* the instructions produce, or a copy leaves the base.                    *)

\* the sizes the instructions name, added up
InstructedSize(instrs) == SumSeq([i \in DOMAIN instrs |-> instrs[i].size])

\* the copies and inserts of the small base, and copies that reach past its end
CorruptInstrChoices ==
    InstrChoices(SmallBase) \cup {CopyOf(2, 3, FALSE), CopyOf(5, 1, FALSE)}

\* the delta stream with a result size of its own
WriteDeltaDeclaring(base, declared, instrs) ==
    SizeVarint(Len(base))
    \o SizeVarint(declared)
    \o Flatten([i \in DOMAIN instrs |-> InstrBytes(instrs[i])])

InitCorruptDelta ==
    /\ UiIdle
    /\ GraphIdle
    /\ IdxIdle
    /\ ImportIdle
    /\ deltaBase = SmallBase
    /\ \E n \in 0..MaxInstrs : deltaInstrs \in [1..n -> CorruptInstrChoices]
    /\ \E declared \in 0..(InstructedSize(deltaInstrs) + 2) :
          /\ declared >= InstructedSize(deltaInstrs) - 2
          /\ deltaStream = WriteDeltaDeclaring(deltaBase, declared, deltaInstrs)
    /\ deltaResult = [thrown |-> FALSE, data |-> <<>>]
    /\ dpc = "start"

SpecCorruptDelta == InitCorruptDelta /\ [][NextDelta]_vars

-----------------------------------------------------------------------------
(* The commit maps the graph builder is run on.                            *)

\* an id that is in no explored commit map
AbsentId == MaxCommits + 1

\* The commit map of n commits in which the i-th inserted commit has
\* counts[i] parent entries, taken in order from targets, and time times[i].
CommitMapOf(counts, targets, times) ==
    [i \in DOMAIN counts |->
        LET before == SumSeq(SubSeq(counts, 1, i - 1))
        IN  [id          |-> i,
             parents     |-> SubSeq(targets, before + 1, before + counts[i]),
             authoredAt  |-> times[i],
             branchHints |-> <<>>]]

\* Any map of up to MaxCommits commits with at most MaxParents parents each
\* and MaxEdges parent entries in all; a parent may be any commit of the map
\* (itself and later-inserted ones included) or the absent id.
AnyCommitMap(c) ==
    \E n \in 0..MaxCommits :
        \E counts \in [1..n -> 0..MaxParents] :
            /\ SumSeq(counts) <= MaxEdges
            /\ \E targets \in [1..SumSeq(counts) -> (1..n) \cup {AbsentId}] :
                   \E times \in [1..n -> Times] :
                       c = CommitMapOf(counts, targets, times)

-----------------------------------------------------------------------------
(* The graph pipeline: buildTopoOrder step by step, the rest of            *)
(* buildRepoGraph, then generateEdges.                                     *)

InitGraph ==
    /\ UiIdle
    /\ IdxIdle
    /\ DeltaIdle
    /\ ImportIdle
    /\ AnyCommitMap(commits)
    /\ inDegree = NoLanes
    /\ queue = <<>>
    /\ result = <<>>
    /\ topoOrder = <<>>
    /\ lanes = NoLanes
    /\ edges = <<>>
    /\ gpc = "start"
    /\ NotRun

\* buildTopoOrder lines 15-49
TopoSeed ==
    /\ gpc = "start"
    /\ LET st == KahnSeed(commits)
       IN  /\ inDegree' = st.inDegree
           /\ queue' = st.queue
           /\ result' = st.result
    /\ gpc' = "loop"
    /\ UNCHANGED <<commits, topoOrder, lanes, edges>>
    /\ UNCHANGED <<metrics, nodes, rerun>>
    /\ UNCHANGED <<ivars, dvars, mvars, uvars>>

\* buildTopoOrder lines 53-71, one iteration
TopoStep ==
    /\ gpc = "loop"
    /\ queue # <<>>
    /\ LET st == KahnStep(commits, [inDegree |-> inDegree, queue |-> queue, result |-> result])
       IN  /\ inDegree' = st.inDegree
           /\ queue' = st.queue
           /\ result' = st.result
    /\ UNCHANGED <<commits, topoOrder, lanes, edges, gpc>>
    /\ UNCHANGED <<metrics, nodes, rerun>>
    /\ UNCHANGED <<ivars, dvars, mvars, uvars>>

\* buildTopoOrder line 73 and buildRepoGraph lines 295-296
BuildGraph ==
    /\ gpc = "loop"
    /\ queue = <<>>
    /\ topoOrder' = result
    /\ lanes' = assignLanes(commits, result)
    /\ gpc' = "built"
    /\ UNCHANGED <<commits, inDegree, queue, result, edges>>
    /\ UNCHANGED <<metrics, nodes, rerun>>
    /\ UNCHANGED <<ivars, dvars, mvars, uvars>>

\* generateEdges(graph)
GenerateEdges ==
    /\ gpc = "built"
    /\ edges' = generateEdges(commits)
    /\ gpc' = "done"
    /\ UNCHANGED <<commits, inDegree, queue, result, topoOrder, lanes>>
    /\ UNCHANGED <<metrics, nodes, rerun>>
    /\ UNCHANGED <<ivars, dvars, mvars, uvars>>

NextGraph == TopoSeed \/ TopoStep \/ BuildGraph \/ GenerateEdges

SpecGraph == InitGraph /\ [][NextGraph]_vars

-----------------------------------------------------------------------------
(* assignLanes on commit maps with branch hints.                           *)

\* branchHints: none, the default branch in capitals, and a commit that two
\* refs point at, the default branch being the second
HintLists == {<<>>, <<"MASTER">>, <<"feature", "main">>}

\* Any map of up to MaxCommits commits, every parent inserted before its
\* child, with any of the hint lists on every commit.
AnyHintedMap(c) ==
    \E n \in 0..MaxCommits :
        \E counts \in [1..n -> 0..MaxParents] :
            /\ SumSeq(counts) <= MaxEdges
            /\ \E targets \in [1..SumSeq(counts) -> 1..n] :
                   /\ LET links == CommitMapOf(counts, targets, [i \in 1..n |-> 0])
                      IN  \A i \in 1..n : \A k \in DOMAIN links[i].parents :
                              links[i].parents[k] < i
                   /\ \E times \in [1..n -> Times] :
                      \E hints \in [1..n -> HintLists] :
                          LET plain == CommitMapOf(counts, targets, times)
                          IN  c = [i \in 1..n |->
                                      [plain[i] EXCEPT !.branchHints = hints[i]]]

InitLanes ==
    /\ UiIdle
    /\ IdxIdle
    /\ DeltaIdle
    /\ ImportIdle
    /\ AnyHintedMap(commits)
    /\ inDegree = NoLanes
    /\ queue = <<>>
    /\ result = <<>>
    /\ topoOrder = <<>>
    /\ lanes = NoLanes
    /\ edges = <<>>
    /\ gpc = "start"
    /\ NotRun

\* buildRepoGraph lines 295-296
BuildRepoGraph ==
    /\ gpc = "start"
    /\ topoOrder' = buildTopoOrder(commits)
    /\ lanes' = assignLanes(commits, topoOrder')
    /\ gpc' = "built"
    /\ UNCHANGED <<commits, inDegree, queue, result, edges, metrics, nodes, rerun>>
    /\ UNCHANGED <<ivars, dvars, mvars, uvars>>

\* a second call assignLanes(commits, topoOrder) on the same arguments;
\* the function writes to neither of them
AssignLanesAgain ==
    /\ gpc = "built"
    /\ rerun' = <<[commits |-> commits, topoOrder |-> topoOrder,
                   lanes |-> assignLanes(commits, topoOrder)]>>
    /\ gpc' = "again"
    /\ UNCHANGED <<commits, inDegree, queue, result, topoOrder, lanes, edges, metrics, nodes>>
    /\ UNCHANGED <<ivars, dvars, mvars, uvars>>

NextLanes == BuildRepoGraph \/ AssignLanesAgain

SpecLanes == InitLanes /\ [][NextLanes]_vars

-----------------------------------------------------------------------------
(* buildRepoGraph on two maps that hold the same commits, filled in        *)
(* different orders.                                                       *)

\* the orders in which n commits can be inserted
InsertionOrders(n) == {f \in [1..n -> 1..n] : \A i, j \in 1..n : f[i] = f[j] => i = j}

\* the map that commits.set fills when the commits of c arrive in order f
Reinserted(c, f) == [i \in DOMAIN c |-> c[f[i]]]

\* buildRepoGraph lines 295-296 on the same commits inserted in another order
BuildReordered ==
    /\ gpc = "built"
    /\ \E f \in InsertionOrders(Len(commits)) :
          LET c2    == Reinserted(commits, f)
              order == buildTopoOrder(c2)
          IN  rerun' = <<[commits |-> c2, topoOrder |-> order,
                         lanes |-> assignLanes(c2, order)]>>
    /\ gpc' = "reordered"
    /\ UNCHANGED <<commits, inDegree, queue, result, topoOrder, lanes, edges, metrics, nodes>>
    /\ UNCHANGED <<ivars, dvars, mvars, uvars>>

NextOrder == BuildRepoGraph \/ BuildReordered

SpecOrder == InitLanes /\ [][NextOrder]_vars

-----------------------------------------------------------------------------
(* generatePositionedNodes on the graphs buildRepoGraph returns.           *)

\* A chain of n commits, each the only parent of the next, in which any
\* commit may have NaN as authoredAt.  The ready queue of buildTopoOrder
\* never holds two commits of a chain, so its comparator is never called
\* with NaN.
AnyChainWithNaN(c) ==
    \E n \in 1..MaxCommits :
        \E times \in [1..n -> Times \cup {NaN}] :
            /\ \E i \in 1..n : times[i] = NaN
            /\ c = [i \in 1..n |->
                      [id |-> i, parents |-> IF i = 1 THEN <<>> ELSE <<i - 1>>,
                       authoredAt |-> times[i], branchHints |-> <<>>]]

InitNodes ==
    /\ UiIdle
    /\ IdxIdle
    /\ DeltaIdle
    /\ ImportIdle
    /\ AnyCommitMap(commits) \/ AnyChainWithNaN(commits)
    /\ inDegree = NoLanes
    /\ queue = <<>>
    /\ result = <<>>
    /\ topoOrder = <<>>
    /\ lanes = NoLanes
    /\ edges = <<>>
    /\ gpc = "start"
    /\ NotRun

\* generatePositionedNodes(graph)
GeneratePositionedNodes ==
    /\ gpc = "built"
    /\ nodes' = generatePositionedNodes(
                    [commits |-> commits, topoOrder |-> topoOrder, lanes |-> lanes])
    /\ gpc' = "placed"
    /\ UNCHANGED <<commits, inDegree, queue, result, topoOrder, lanes, edges, metrics, rerun>>
    /\ UNCHANGED <<ivars, dvars, mvars, uvars>>

NextNodes == TopoSeed \/ TopoStep \/ BuildGraph \/ GeneratePositionedNodes

SpecNodes == InitNodes /\ [][NextNodes]_vars

-----------------------------------------------------------------------------
(* computeMetrics on commit maps with authors and stats.                   *)

AuthorNames == {"Alice", "Bob"}

\* stats: none, one with additions only, one with both fields
StatsChoices ==
    {<<>>,
     <<[additions |-> <<100>>, deletions |-> <<>>]>>,
     <<[additions |-> <<50>>, deletions |-> <<20>>]>>}

\* the parent lists: a root, a commit with one parent, a merge
ParentLists == {<<>>, <<AbsentId>>, <<AbsentId, AbsentId + 1>>}

MeasuredCommit(id, parents, author, time, stats) ==
    [id |-> id, parents |-> parents, authorName |-> author, authoredAt |-> time,
     stats |-> stats, branchHints |-> <<>>]

InitMetrics ==
    /\ UiIdle
    /\ IdxIdle
    /\ DeltaIdle
    /\ ImportIdle
    /\ \E n \in 0..MaxCommits :
          \E ps \in [1..n -> ParentLists] :
          \E as \in [1..n -> AuthorNames] :
          \E ts \in [1..n -> Times] :
          \E ss \in [1..n -> StatsChoices] :
              commits = [i \in 1..n |-> MeasuredCommit(i, ps[i], as[i], ts[i], ss[i])]
    /\ inDegree = NoLanes
    /\ queue = <<>>
    /\ result = <<>>
    /\ topoOrder = <<>>
    /\ lanes = NoLanes
    /\ edges = <<>>
    /\ gpc = "start"
    /\ NotRun

\* buildRepoGraph line 297
ComputeMetrics ==
    /\ gpc = "start"
    /\ metrics' = <<computeMetrics(commits)>>
    /\ gpc' = "measured"
    /\ UNCHANGED <<commits, inDegree, queue, result, topoOrder, lanes, edges, nodes, rerun>>
    /\ UNCHANGED <<ivars, dvars, mvars, uvars>>

NextMetrics == ComputeMetrics

SpecMetrics == InitMetrics /\ [][NextMetrics]_vars

-----------------------------------------------------------------------------
(* The imports explored.                                                   *)

LooseRecord(state, type, data) == [state |-> state, type |-> type, data |-> data]
RootCommit == LooseRecord("object", "commit", <<>>)

PackedObject(type, inflates, base, data) ==
    [type |-> type, inflates |-> inflates, base |-> base, data |-> data]

\* a delta that inserts the line "parent 2", and one that copies the first
\* line of its base
InsertDelta == WriteDelta(<<>>, <<InsertOf(<<2>>)>>)
CopyDelta == WriteDelta(<<1>>, <<CopyOf(0, 1, FALSE)>>)

\* the ids the explored packs hold
PackedIds == 1..(MaxObjects - 1)

\* what stands at one place of a pack: a commit, bytes that do not inflate,
\* a delta on the object one place before, a delta on an object named by id
PackedObjectChoices ==
    {PackedObject(1, TRUE, 0, <<1>>), PackedObject(1, FALSE, 0, <<>>),
     PackedObject(6, TRUE, 1, CopyDelta)}
    \cup {PackedObject(7, TRUE, b, InsertDelta) : b \in PackedIds \cup {MissingId}}

\* the objects of pack p among the listed ones, in order
ObjectsIn(listed, p) == SelectSeq(listed, LAMBDA e : e.pack = p)

\* the index of a pack: the id of each of its objects with its place
RECURSIVE IndexOfPack(_, _, _)
IndexOfPack(mine, i, idx) ==
    IF i > Len(mine) THEN idx
    ELSE IndexOfPack(mine, i + 1, MapSet(idx, mine[i].id, i))

PacksOf(listed) ==
    [p \in 1..MaxPacks |->
        LET mine == ObjectsIn(listed, p)
        IN  [idx |-> IndexOfPack(mine, 1, <<>>),
             data |-> [i \in DOMAIN mine |-> mine[i].entry]]]

AllAbsent == [o \in ObjectIds |-> AbsentFile]

\* a store: packed objects listed pack by pack, and at most one loose file
InitStore ==
    /\ UiIdle
    /\ GraphIdle
    /\ IdxIdle
    /\ DeltaIdle
    /\ \E n \in 0..MaxPackObjects :
          \E listed \in [1..n -> [pack : 1..MaxPacks, id : PackedIds,
                                  entry : PackedObjectChoices]] :
             \E o \in ObjectIds :
                \E file \in {AbsentFile, RootCommit, LooseRecord("corrupt", "", <<>>),
                             LooseRecord("nonul", "", <<>>)} :
                   /\ \A i \in 1..(n - 1) : listed[i].pack <= listed[i + 1].pack
                   /\ file = AbsentFile => o = 1
                   /\ file # AbsentFile => n <= 1
                   /\ fs = [NoFiles EXCEPT !.objects = [AllAbsent EXCEPT ![o] = file],
                                           !.packs = PacksOf(listed)]
    /\ source = NoSource
    /\ refs = <<>>
    /\ defaultBranch = NoBranch
    /\ visited = {}
    /\ toVisit = <<>>
    /\ failedReads = <<>>
    /\ walked = <<>>
    /\ decoded = [oid |-> NoId, result |-> Null]
    /\ outcome = Pending
    /\ mpc = "store"

\* parseFromFS, line 588: readGitObject(fs, oid, packIndex)
ReadObject(oid) ==
    /\ mpc = "store"
    /\ decoded' = [oid |-> oid, result |-> readGitObject(fs, oid, loadPackIndex(fs.packs))]
    /\ mpc' = "read"
    /\ UNCHANGED <<fs, source, refs, defaultBranch, visited, toVisit, failedReads,
                   walked, outcome>>
    /\ UNCHANGED <<gvars, ivars, dvars, uvars>>

NextStore == \E oid \in ObjectIds : ReadObject(oid)

SpecStore == InitStore /\ [][NextStore]_vars

-----------------------------------------------------------------------------
(* Delta chains: one pack in which the object at every place but the first *)
(* is a delta on the object one place before it.                           *)

\* a delta that copies its whole base of len bytes and appends the byte 2
DeltaOn(len) == WriteDelta(Zeros(len), <<CopyOf(0, len, FALSE), InsertOf(<<2>>)>>)

\* the first object of the pack: a commit, a delta with a backreference of
\* 0, or a delta by id on the last object of the pack
BottomOf(bottom, last) ==
    CASE bottom = "commit"       -> PackedObject(1, TRUE, 0, <<1>>)
      [] bottom = "selfByOffset" -> PackedObject(6, TRUE, 0, DeltaOn(1))
      [] bottom = "lastById"     -> PackedObject(7, TRUE, last, DeltaOn(1))

\* the delta at place k on the object at place k - 1, by offset or by id
LinkOf(links, k) ==
    IF links = "offset" \/ (links = "mixed" /\ k % 2 = 0)
    THEN PackedObject(6, TRUE, 1, DeltaOn(k - 1))
    ELSE PackedObject(7, TRUE, k - 1, DeltaOn(k - 1))

\* the pack and its index; the object at place k has id k
ChainPack(deltas, bottom, links) ==
    [idx  |-> [k \in 1..(deltas + 1) |-> [key |-> k, value |-> k]],
     data |-> [k \in 1..(deltas + 1) |->
                 IF k = 1 THEN BottomOf(bottom, deltas + 1) ELSE LinkOf(links, k)]]

InitChain ==
    /\ UiIdle
    /\ GraphIdle
    /\ IdxIdle
    /\ DeltaIdle
    /\ \E deltas \in 0..MaxChain :
       \E bottom \in {"commit", "selfByOffset", "lastById"} :
       \E links \in {"offset", "id", "mixed"} :
           /\ source = [kind |-> "chain", bottom |-> bottom]
           /\ fs = [NoFiles EXCEPT !.packs = <<ChainPack(deltas, bottom, links)>>]
    /\ refs = <<>>
    /\ defaultBranch = NoBranch
    /\ visited = {}
    /\ toVisit = <<>>
    /\ failedReads = <<>>
    /\ walked = <<>>
    /\ decoded = [oid |-> NoId, result |-> Null]
    /\ outcome = Pending
    /\ mpc = "chain"

\* parseFromFS, line 588: readGitObject(fs, oid, packIndex) for an object of the pack
ReadChained ==
    /\ mpc = "chain"
    /\ \E oid \in DOMAIN fs.packs[1].data :
          decoded' = [oid |-> oid, result |-> readGitObject(fs, oid, loadPackIndex(fs.packs))]
    /\ mpc' = "read"
    /\ UNCHANGED <<fs, source, refs, defaultBranch, visited, toVisit, failedReads,
                   walked, outcome>>
    /\ UNCHANGED <<gvars, ivars, dvars, uvars>>

NextChain == ReadChained

SpecChain == InitChain /\ [][NextChain]_vars

HeadChoices ==
    {HeadFile("missing", NoRef, NoId), HeadFile("sha", NoRef, 1)}
    \cup {HeadFile("ref", RefName("heads", n), NoId) : n \in BranchNames}

PackedLineChoices ==
    {PackedLine("", RefName("heads", n), s) : n \in BranchNames, s \in ObjectIds}
    \cup {PackedLine("", RefName("tags", "v1"), 1)}

LooseRefChoices ==
    {[name |-> n, sha |-> s, valid |-> TRUE] : n \in BranchNames, s \in ObjectIds}
    \cup {[name |-> "alpha", sha |-> MissingId, valid |-> FALSE]}

WalkStart ==
    /\ refs = <<>>
    /\ defaultBranch = NoBranch
    /\ visited = {}
    /\ toVisit = <<>>
    /\ failedReads = <<>>
    /\ walked = <<>>
    /\ decoded = [oid |-> NoId, result |-> Null]
    /\ outcome = Pending

\* a ZIP whose objects are all loose root commits, with any HEAD and refs
InitZipRefs ==
    /\ source = [kind |-> "zip"]
    /\ \E head \in HeadChoices :
          \E np \in 0..MaxRefs :
             \E nl \in 0..(MaxRefs - np) :
                \E packed \in [1..np -> PackedLineChoices] :
                   \E loose \in [1..nl -> LooseRefChoices] :
                      /\ \A i, j \in 1..nl : loose[i].name = loose[j].name => i = j
                      /\ fs = [head |-> head, packedRefs |-> packed, looseRefs |-> loose,
                               objects |-> [o \in ObjectIds |-> RootCommit],
                               packs |-> <<>>]
    /\ WalkStart
    /\ mpc = "zip"

\* the dates of the explored commits
DateOf(sha) == IF sha = 1 THEN 1000 ELSE 2000

RawCommitChoices ==
    {[sha |-> s, parents |-> p, date |-> DateOf(s), wellTyped |-> TRUE] :
        s \in {1, 2}, p \in {<<>>, <<1>>}}
    \cup {[sha |-> 1, parents |-> <<>>, date |-> DateOf(1), wellTyped |-> FALSE]}

NamedShaChoices == {[name |-> n, sha |-> s] : n \in BranchNames, s \in {1, 2}}

Export(shape, commitList, refList, branch) ==
    [parses |-> shape # "nojson", isObject |-> shape # "noobject",
     nameIsString |-> shape # "noname", commitsIsArray |-> shape # "noarray",
     commits |-> commitList, refs |-> refList, defaultBranch |-> branch]

\* a gitsonar.json
InitJson ==
    /\ \E shape \in {"ok", "nojson", "noobject", "noname", "noarray"} :
          \E nc \in 0..2 :
             \E nr \in 0..MaxRefs :
                \E commitList \in [1..nc -> RawCommitChoices] :
                   \E refList \in [1..nr -> NamedShaChoices] :
                      \E branch \in BranchNames \cup {NoBranch} :
                         /\ shape # "ok" => nc = 0 /\ nr = 0 /\ branch = NoBranch
                         /\ source = [kind |-> "json",
                                      data |-> Export(shape, commitList, refList, branch)]
    /\ fs = NoFiles
    /\ WalkStart
    /\ mpc = "json"

ApiCommitChoices ==
    {[sha |-> s, parents |-> p, date |-> DateOf(s)] : s \in {1, 2}, p \in {<<>>, <<1>>}}

\* the responses of the GitHub API; its repository resource always names the
\* default branch
InitGitHub ==
    /\ \E failing \in {"none", "repo", "branches", "commits"} :
          \E nc \in 0..2 :
             \E nb \in 0..MaxRefs :
                \E commitList \in [1..nc -> ApiCommitChoices] :
                   \E branchList \in [1..nb -> NamedShaChoices] :
                      \E branch \in BranchNames :
                         /\ failing # "none" => nc = 0 /\ nb = 0 /\ branch = "main"
                         /\ source = [kind |-> "github",
                                      data |-> [repoOk |-> failing # "repo",
                                                branchesOk |-> failing # "branches",
                                                commitsOk |-> failing # "commits",
                                                default_branch |-> branch,
                                                branches |-> branchList,
                                                commits |-> commitList]]
    /\ fs = NoFiles
    /\ WalkStart
    /\ mpc = "github"

InitImport ==
    /\ UiIdle
    /\ GraphIdle
    /\ IdxIdle
    /\ DeltaIdle
    /\ (InitZipRefs \/ InitJson \/ InitGitHub)

\* the parent lines of the explored loose commits
ParentChoices ==
    {<<>>} \cup {<<p>> : p \in 1..MissingId}
    \cup {<<2, MissingId>>, <<MissingId, 2>>, <<2, 3>>}

LooseChoices ==
    {AbsentFile, LooseRecord("corrupt", "", <<>>), LooseRecord("nonul", "", <<>>),
     LooseRecord("object", "tree", <<>>)}
    \cup {LooseRecord("object", "commit", p) : p \in ParentChoices}

\* one pack: object 3 a commit, object 2 a delta on a base no index holds
WalkPack ==
    [idx |-> <<[key |-> 3, value |-> 1], [key |-> 2, value |-> 2]>>,
     data |-> <<PackedObject(1, TRUE, 0, <<>>), PackedObject(7, TRUE, MissingId, InsertDelta)>>]

WalkRefChoices ==
    {<<[name |-> "main", sha |-> 1, valid |-> TRUE]>>,
     <<[name |-> "zeta", sha |-> 2, valid |-> TRUE], [name |-> "main", sha |-> 1, valid |-> TRUE]>>}

\* a ZIP with HEAD on main, one or two branches, and any loose objects
InitWalk ==
    /\ UiIdle
    /\ GraphIdle
    /\ IdxIdle
    /\ DeltaIdle
    /\ source = [kind |-> "zip"]
    /\ \E objects \in [ObjectIds -> LooseChoices] :
          \E loose \in WalkRefChoices :
             \E packs \in {<<>>, <<WalkPack>>} :
                fs = [head |-> HeadFile("ref", RefName("heads", "main"), NoId),
                      packedRefs |-> <<>>, looseRefs |-> loose,
                      objects |-> objects, packs |-> packs]
    /\ WalkStart
    /\ mpc = "zip"

\* parseFromFS, lines 511-580: the refs, the default branch, the stack
ReadRefs ==
    /\ mpc = "zip"
    /\ LET r        == RefsOf(fs)
           headInfo == readHeadInfo(fs.head)
           branch   == DefaultBranchOf(fs, r)
           defaultRef == IF MapHas(r, branch) THEN MapGet(r, branch)
                         ELSE IF r # <<>> THEN r[1].value ELSE NoId
       IN  /\ refs' = r
           /\ IF r = <<>> /\ ~headInfo.present
              THEN /\ outcome' = Thrown("No .git/HEAD found")
                   /\ mpc' = "done"
                   /\ UNCHANGED <<defaultBranch, toVisit>>
              ELSE IF defaultRef = NoId
              THEN /\ outcome' = Thrown("No commits found in repository")
                   /\ defaultBranch' = branch
                   /\ mpc' = "done"
                   /\ UNCHANGED toVisit
              ELSE /\ defaultBranch' = branch
                   /\ toVisit' = MapValues(r)
                   /\ mpc' = "walk"
                   /\ UNCHANGED outcome
    /\ UNCHANGED <<fs, source, visited, failedReads, walked, decoded>>
    /\ UNCHANGED <<gvars, ivars, dvars, uvars>>

\* a walk that never records what it has read
MarkVisitedForgotten(seen, oid) == seen

\* parseFromFS, line 583: visited.add(oid)
MarkVisited(seen, oid) == seen \cup {oid}

\* parseFromFS, lines 577-626: one iteration of the walk
WalkStep ==
    /\ mpc = "walk"
    /\ toVisit # <<>>
    /\ LET oid  == toVisit[Len(toVisit)]
           rest == SubSeq(toVisit, 1, Len(toVisit) - 1)
       IN  IF oid \in visited
           THEN /\ toVisit' = rest
                /\ UNCHANGED <<visited, failedReads, walked, decoded>>
           ELSE
           LET commitData == readGitObject(fs, oid, loadPackIndex(fs.packs))
           IN  /\ visited' = MarkVisited(visited, oid)
               /\ decoded' = [oid |-> oid, result |-> commitData]
               /\ IF commitData = Null
                  THEN /\ failedReads' = Append(failedReads, oid)
                       /\ toVisit' = rest
                       /\ UNCHANGED walked
                  ELSE IF commitData.type # "commit"
                  THEN /\ toVisit' = rest
                       /\ UNCHANGED <<failedReads, walked>>
                  ELSE LET parsed == parseCommitObject(commitData.data)
                       IN  /\ walked' = CommitsSet(walked,
                                           [id |-> oid, parents |-> parsed.parents,
                                            authoredAt |-> parsed.authoredAt,
                                            branchHints |-> BranchHintsOf(refs, oid)])
                           /\ toVisit' = QueueParents(rest, parsed.parents, visited')
                           /\ UNCHANGED failedReads
    /\ UNCHANGED <<fs, source, refs, defaultBranch, outcome, mpc>>
    /\ UNCHANGED <<gvars, ivars, dvars, uvars>>

\* parseFromFS, lines 628-638
FinishWalk ==
    /\ mpc = "walk"
    /\ toVisit = <<>>
    /\ outcome' = IF walked = <<>>
                  THEN Thrown("No commits could be read from repository")
                  ELSE Returned(buildRepoGraph(walked, refs, defaultBranch))
    /\ mpc' = "done"
    /\ UNCHANGED <<fs, source, refs, defaultBranch, visited, toVisit, failedReads,
                   walked, decoded>>
    /\ UNCHANGED <<gvars, ivars, dvars, uvars>>

\* importLocalExport(jsonString)
ImportLocalExport ==
    /\ mpc = "json"
    /\ outcome' = importLocalExport(source.data)
    /\ mpc' = "done"
    /\ UNCHANGED <<fs, source, refs, defaultBranch, visited, toVisit, failedReads,
                   walked, decoded>>
    /\ UNCHANGED <<gvars, ivars, dvars, uvars>>

\* parseGitHubRepo(urlOrPath)
ParseGitHubRepo ==
    /\ mpc = "github"
    /\ outcome' = parseGitHubRepo(source.data)
    /\ mpc' = "done"
    /\ UNCHANGED <<fs, source, refs, defaultBranch, visited, toVisit, failedReads,
                   walked, decoded>>
    /\ UNCHANGED <<gvars, ivars, dvars, uvars>>

NextWalk == ReadRefs \/ WalkStep \/ FinishWalk

SpecWalk == InitWalk /\ [][NextWalk]_vars

\* the refs are read and the walk is one sequential loop: an enabled
\* iteration is taken
SpecWalkFair == InitWalk /\ [][NextWalk]_vars /\ WF_vars(ReadRefs) /\ WF_vars(WalkStep)

NextImport == ReadRefs \/ WalkStep \/ FinishWalk \/ ImportLocalExport \/ ParseGitHubRepo

SpecImport == InitImport /\ [][NextImport]_vars

-----------------------------------------------------------------------------
(* The refs of a ZIP with packed-refs and loose ref files.                 *)

\* branches of the explored refs: one directly in refs/heads and one in a
\* directory below it
RefBranches == {"main", "feature/x"}

\* the lines of packed-refs: the header line, the peeled id of a tag, a tag
\* and the branches
RefLineChoices ==
    {PackedLine("#", NoRef, NoId), PackedLine("^", NoRef, 1),
     PackedLine("", RefName("tags", "v1"), 1)}
    \cup {PackedLine("", RefName("heads", n), s) : n \in RefBranches, s \in {1, 2}}

\* the files below .git/refs/heads: ids, and a file that holds no id
RefFileChoices ==
    {[name |-> n, sha |-> s, valid |-> TRUE] : n \in RefBranches, s \in {1, 2}}
    \cup {[name |-> "main", sha |-> MissingId, valid |-> FALSE]}

\* a ZIP whose objects are all loose root commits, with up to MaxRefs lines
\* of packed-refs and up to MaxRefs loose ref files
InitRefs ==
    /\ UiIdle
    /\ GraphIdle
    /\ IdxIdle
    /\ DeltaIdle
    /\ source = [kind |-> "zip"]
    /\ \E head \in {HeadFile("missing", NoRef, NoId), HeadFile("sha", NoRef, 1),
                    HeadFile("ref", RefName("heads", "main"), NoId)} :
          \E np \in 0..MaxRefs :
             \E nl \in 0..MaxRefs :
                \E packed \in [1..np -> RefLineChoices] :
                   \E loose \in [1..nl -> RefFileChoices] :
                      /\ \A i, j \in 1..nl : loose[i].name = loose[j].name => i = j
                      /\ fs = [head |-> head, packedRefs |-> packed, looseRefs |-> loose,
                               objects |-> [o \in ObjectIds |-> RootCommit],
                               packs |-> <<>>]
    /\ WalkStart
    /\ mpc = "zip"

NextRefs == ReadRefs

SpecRefs == InitRefs /\ [][NextRefs]_vars

-----------------------------------------------------------------------------
(* The keyboard on a displayed graph.                                      *)

\* handleKeyDown, lines 365-381 of CommitSidebar.tsx: the arrow keys
handleKeyDown(s, key) ==
    CASE key = "ArrowRight" -> navigateNext(s)
      [] key = "ArrowLeft"  -> navigatePrev(s)
      [] key = "ArrowUp"    -> navigateLane(s, "up")
      [] key = "ArrowDown"  -> navigateLane(s, "down")
      [] OTHER              -> s

ArrowKeys == {"ArrowRight", "ArrowLeft", "ArrowUp", "ArrowDown"}

\* setGraph(graph) with the graph built from an imported commit map
SetGraph ==
    /\ gpc = "start"
    /\ StoreBecomes(setGraph(StoreState, buildRepoGraph(commits, <<>>, NoBranch)))
    /\ gpc' = "shown"
    /\ UNCHANGED <<commits, inDegree, queue, result, topoOrder, lanes, metrics, rerun>>
    /\ UNCHANGED imports
    /\ UNCHANGED <<ivars, dvars, mvars>>

\* a click on a commit, or on the background
SelectCommit(id) ==
    /\ gpc = "shown"
    /\ StoreBecomes(selectCommit(StoreState, id))
    /\ UNCHANGED <<commits, inDegree, queue, result, topoOrder, lanes, metrics, rerun, gpc>>
    /\ UNCHANGED imports
    /\ UNCHANGED <<ivars, dvars, mvars>>

\* a key pressed outside the input fields
KeyDown(key) ==
    /\ gpc = "shown"
    /\ StoreBecomes(handleKeyDown(StoreState, key))
    /\ UNCHANGED <<commits, inDegree, queue, result, topoOrder, lanes, metrics, rerun, gpc>>
    /\ UNCHANGED imports
    /\ UNCHANGED <<ivars, dvars, mvars>>

NextKeys ==
    \/ SetGraph
    \/ \E key \in ArrowKeys : KeyDown(key)
    \/ \E id \in {nodes[i].id : i \in DOMAIN nodes} \cup {NoId} : SelectCommit(id)

SpecKeys == InitLanes /\ [][NextKeys]_vars

-----------------------------------------------------------------------------
(* The import panel (ImportPanel.tsx) over the store.                      *)
(*                                                                         *)
(* Every handler is an async function: it runs up to its await in one step *)
(* and, when the awaited parser settles, runs to its end in another.       *)
(* imports lists the calls in the order they started, with what the parser *)
(* gave.  The text of the URL field is taken as typed without blanks       *)
(* around it.                                                              *)

MaxImports == 3

UrlInputs == {"https://github.com/o/a", "https://gitlab.com/o/b"}
TokenInputs == {"", "tok"}
FileInputs == {"a.zip", "c.json", "notes.txt"}
DemoKeys == {"complex"}

\* handleFile, lines 78 and 82: file.name.endsWith
EndsWith(name, suffix) ==
    \/ name = "a.zip" /\ suffix = ".zip"
    \/ name = "c.json" /\ suffix = ".json"

\* handleGitHubSubmit, lines 154 and 157: trimmedUrl.includes
Includes(url, host) == url = "https://gitlab.com/o/b" /\ host = "gitlab.com"

\* handleGitHubSubmit, lines 152-162
ProviderOf(url) ==
    IF Includes(url, "gitlab.com") THEN "gitlab"
    ELSE IF Includes(url, "bitbucket.org") THEN "bitbucket"
    ELSE "github"

\* the repository behind each input, told apart by its commit ids
RepoOf(input) ==
    CASE input = "https://github.com/o/a" -> 1
      [] input = "https://gitlab.com/o/b" -> 2
      [] input = "a.zip"                  -> 3
      [] input = "c.json"                 -> 4
      [] input = "complex"                -> 5

RepoCommits(r) ==
    <<[id |-> 10 * r + 1, parents |-> <<>>, authoredAt |-> 1000, branchHints |-> <<>>],
      [id |-> 10 * r + 2, parents |-> <<10 * r + 1>>, authoredAt |-> 2000,
       branchHints |-> <<>>]>>

\* the graph the parser of an input resolves with
GraphOf(input) == buildRepoGraph(RepoCommits(RepoOf(input)), <<>>, NoBranch)

\* the message of the error the parser of an input rejects with
MessageOf(input) ==
    CASE input = "https://github.com/o/a" -> "GitHub API error: 404"
      [] input = "https://gitlab.com/o/b" -> "GitLab API error: 404"
      [] input = "a.zip"                  -> "No .git/HEAD found"
      [] input = "c.json"                 -> "Invalid JSON"
      [] input = "complex"                -> "Failed to load complex demo data"

\* how the promise of a parser settles
Settlements(input) == {Returned(GraphOf(input)), Thrown(MessageOf(input))}

SomeWaiting == \E i \in DOMAIN imports : imports[i].state = "waiting"

Started(handler, input, token) ==
    [handler |-> handler, input |-> input, token |-> token, state |-> "waiting",
     overlapped |-> SomeWaiting, result |-> Pending]

PanelUnchanged ==
    /\ UNCHANGED <<commits, inDegree, queue, result, topoOrder, lanes, metrics, rerun, gpc>>
    /\ UNCHANGED <<ivars, dvars, mvars>>

\* the two calls every handler starts with: setLoading(true); setError(null)
BeginImport(s) == setError(setLoading(s, TRUE), NoText)

\* handleDemoClick, lines 43-46, up to the await; the demo buttons are
\* disabled while isLoading
HandleDemoClick(key) ==
    /\ Len(imports) < MaxImports
    /\ ~isLoading
    /\ StoreBecomes(BeginImport(StoreState))
    /\ imports' = Append(imports, Started("demo", key, NoText))
    /\ PanelUnchanged

\* handleDemoClick, lines 47-51, after the await
handleDemoClickSettled(s, settled) ==
    IF settled.kind = "graph" THEN setGraph(s, settled.graph)
    ELSE setError(s, settled.error)

\* handleFile, lines 72-86, up to the await; with another extension there
\* is no await and the handler runs to its end, lines 87-95.  The drop zone
\* and the file input are never disabled.
HandleFile(name) ==
    /\ Len(imports) < MaxImports
    /\ IF EndsWith(name, ".zip") \/ EndsWith(name, ".json")
       THEN /\ StoreBecomes(BeginImport(StoreState))
            /\ imports' = Append(imports, Started("file", name, NoText))
       ELSE /\ StoreBecomes(setLoading(setError(BeginImport(StoreState),
                                                "Please drop a .zip or .json file"),
                                       FALSE))
            /\ imports' = Append(imports,
                                 [Started("file", name, NoText) EXCEPT
                                     !.state = "settled",
                                     !.result = Thrown("Please drop a .zip or .json file")])
    /\ PanelUnchanged

\* handleFile, lines 80-95, after the await
handleFileSettled(s, settled) ==
    setLoading(IF settled.kind = "graph" THEN setGraph(s, settled.graph)
               ELSE setError(s, settled.error),
               FALSE)

\* handleGitHubSubmit, lines 140-162, up to the await; the submit button is
\* disabled while isLoading or the field is empty
HandleGitHubSubmit(url, token) ==
    /\ Len(imports) < MaxImports
    /\ ~isLoading
    /\ url # NoText
    /\ StoreBecomes(BeginImport(StoreState))
    /\ imports' = Append(imports, Started("url", url, token))
    /\ PanelUnchanged

\* handleGitHubSubmit, lines 164-170, after the await
handleGitHubSubmitSettled(s, settled, url, token) ==
    IF settled.kind = "graph"
    THEN setRepoPath(setGraph(setAuthToken(s, token), settled.graph),
                     url, ProviderOf(url),
                     Len(settled.graph.commits) >= DefaultMaxCommits)
    ELSE setError(s, settled.error)

\* the parser of a waiting import settles and its handler runs to its end
Settle(i) ==
    /\ i \in DOMAIN imports
    /\ imports[i].state = "waiting"
    /\ \E settled \in Settlements(imports[i].input) :
          /\ StoreBecomes(
                CASE imports[i].handler = "demo" ->
                        handleDemoClickSettled(StoreState, settled)
                  [] imports[i].handler = "file" ->
                        handleFileSettled(StoreState, settled)
                  [] imports[i].handler = "url" ->
                        handleGitHubSubmitSettled(StoreState, settled,
                                                  imports[i].input, imports[i].token))
          /\ imports' = [imports EXCEPT ![i].state = "settled", ![i].result = settled]
    /\ PanelUnchanged

\* clearGraph() called on a displayed graph
ClearGraph ==
    /\ graph # <<>>
    /\ StoreBecomes(clearGraph(StoreState))
    /\ UNCHANGED imports
    /\ PanelUnchanged

InitPanel ==
    /\ UiIdle
    /\ GraphIdle
    /\ IdxIdle
    /\ DeltaIdle
    /\ ImportIdle

NextPanel ==
    \/ \E key \in DemoKeys : HandleDemoClick(key)
    \/ \E name \in FileInputs : HandleFile(name)
    \/ \E url \in UrlInputs : \E token \in TokenInputs : HandleGitHubSubmit(url, token)
    \/ \E i \in 1..MaxImports : Settle(i)
    \/ ClearGraph

SpecPanel == InitPanel /\ [][NextPanel]_vars



-----------------------------------------------------------------------------
(* Properties of the graph builder.                                        *)

IdsOf(c) == Range(Keys(c))

\* the parents of id that are commits of the map
PresentParents(c, id) == Range(Get(c, id).parents) \cap IdsOf(c)

RECURSIVE AncestorsWithin(_, _, _)
AncestorsWithin(c, frontier, n) ==
    IF n = 0 THEN frontier
    ELSE frontier \cup
         AncestorsWithin(c, UNION {PresentParents(c, x) : x \in frontier}, n - 1)

StrictAncestors(c, id) == AncestorsWithin(c, PresentParents(c, id), Len(c))

\* the parent links among the commits of the map have no cycle
Acyclic(c) == \A id \in IdsOf(c) : id \notin StrictAncestors(c, id)

PositionIn(order, id) == CHOOSE i \in DOMAIN order : order[i] = id

GraphBuilt == gpc \in {"built", "done"}

\* C1: for an acyclic commit map buildTopoOrder returns every commit id
\* exactly once and every commit after each of its parents that is in the
\* map; a parent that is absent from the map blocks nothing.
C1_TopoOrderComplete ==
    (GraphBuilt /\ Acyclic(commits)) =>
        /\ Len(topoOrder) = Len(commits)
        /\ \A id \in IdsOf(commits) :
              Cardinality({i \in DOMAIN topoOrder : topoOrder[i] = id}) = 1
        /\ \A id \in IdsOf(commits) : \A p \in PresentParents(commits, id) :
              PositionIn(topoOrder, p) < PositionIn(topoOrder, id)

\* an acyclic map of three commits, one with a parent in the map and one
\* with a parent that is absent from it, has been ordered
C1_Witness ==
    /\ GraphBuilt
    /\ Acyclic(commits)
    /\ Len(commits) = 3
    /\ \E i \in DOMAIN commits : AbsentId \in Range(commits[i].parents)
    /\ \E i \in DOMAIN commits : PresentParents(commits, commits[i].id) # {}
    /\ Len(topoOrder) = 3

\* the number of entries of commit child that name p
ParentEntries(c, child, p) ==
    Cardinality({k \in DOMAIN Get(c, child).parents : Get(c, child).parents[k] = p})

\* C10: generateEdges returns one edge (from = parent, to = child) per
\* parent entry whose parent id is in the commit map and no other edge, so no
\* edge has an endpoint outside the map.
C10_EdgesExactlyPresentParents ==
    gpc = "done" =>
        /\ \A i \in DOMAIN edges :
              Has(commits, edges[i].from) /\ Has(commits, edges[i].to)
        /\ \A child \in IdsOf(commits) : \A p \in IdsOf(commits) :
              Cardinality({i \in DOMAIN edges :
                              edges[i].from = p /\ edges[i].to = child})
                  = ParentEntries(commits, child, p)

\* edges were generated for a map in which one commit has both a parent in
\* the map and a dangling parent, which CommitNode.parents still lists
C10_Witness ==
    /\ gpc = "done"
    /\ Acyclic(commits)
    /\ \E i \in DOMAIN commits :
          /\ AbsentId \in Range(commits[i].parents)
          /\ PresentParents(commits, commits[i].id) # {}
    /\ Len(edges) >= 1

\* the commits that are ready once the commits in done are output: not yet
\* output, every parent that is in the map output
ReadyAfter(c, done) ==
    {id \in IdsOf(c) \ done : PresentParents(c, id) \subseteq done}

\* the commits output before position k
OutputBefore(k) == {result[j] : j \in 1..(k - 1)}

\* C24: at every step of buildTopoOrder the commit appended to the output has
\* the smallest authoredAt among the commits that are ready at that moment,
\* those not yet output whose present parents have all been output.
C24_EarliestReadyFirst ==
    gpc \in {"loop", "built", "done"} =>
        \A k \in DOMAIN result :
            /\ result[k] \in ReadyAfter(commits, OutputBefore(k))
            /\ \A r \in ReadyAfter(commits, OutputBefore(k)) :
                   TimeOf(commits, result[k]) <= TimeOf(commits, r)

\* the order of three commits is complete, and at some step a commit that
\* had become ready during the run was output before an older-inserted,
\* later-dated commit that had been ready from the start
C24_Witness ==
    /\ GraphBuilt
    /\ Len(commits) = 3
    /\ Len(result) = 3
    /\ \E k \in DOMAIN result :
          /\ PresentParents(commits, result[k]) # {}
          /\ \E r \in ReadyAfter(commits, OutputBefore(k)) :
                 /\ PresentParents(commits, r) = {}
                 /\ TimeOf(commits, r) > TimeOf(commits, result[k])

\* C21: when the parent links among the commits of the map contain a cycle
\* (a commit that is its own parent included), graph construction does not
\* return a graph: no topoOrder and no lanes that omit commits of the map are
\* handed on.
C21_CycleIsSignalled ==
    (GraphBuilt /\ ~Acyclic(commits)) =>
        /\ Len(topoOrder) = Len(commits)
        /\ IdsOf(commits) \subseteq Range(topoOrder)
        /\ IdsOf(commits) \subseteq DOMAIN lanes

\* what the builder does with a cycle: the commits on it and their descendants
\* are left out of topoOrder and of lanes, and the graph is returned
CycleCommitsOmitted ==
    (GraphBuilt /\ ~Acyclic(commits)) =>
        /\ Len(topoOrder) < Len(commits)
        /\ DOMAIN lanes = Range(topoOrder)
        /\ \A id \in IdsOf(commits) :
              id \in StrictAncestors(commits, id) => id \notin Range(topoOrder)

\* the contribution of one commit to a total
StatOf(commit, field) ==
    IF commit.stats = <<>> THEN 0
    ELSE IF field = "additions" THEN OrZero(commit.stats[1].additions)
    ELSE OrZero(commit.stats[1].deletions)

AuthorsOf(c) == {c[i].authorName : i \in DOMAIN c}
TimesOf(c) == {c[i].authoredAt : i \in DOMAIN c}
Largest(S) == CHOOSE x \in S : \A y \in S : y <= x
Smallest(S) == CHOOSE x \in S : \A y \in S : x <= y

\* C12: computeMetrics returns the number of commits, the number of commits
\* with more than one parent id, the commits per author name and the number
\* of distinct names (the counts sum to commitCount), the sums of additions
\* and deletions where a missing stats or field counts zero, and timeSpan =
\* largest authoredAt minus smallest, 0 for zero or one commits.
C12_MetricsAreTheCounts ==
    gpc = "measured" =>
        LET m == metrics[1]
        IN  /\ m.commitCount = Len(commits)
            /\ m.mergeCount
                  = Cardinality({i \in DOMAIN commits : Len(commits[i].parents) > 1})
            /\ {m.authorCommits[i].key : i \in DOMAIN m.authorCommits} = AuthorsOf(commits)
            /\ \A i \in DOMAIN m.authorCommits :
                  m.authorCommits[i].value
                      = Cardinality({k \in DOMAIN commits :
                                        commits[k].authorName = m.authorCommits[i].key})
            /\ m.authorCount = Cardinality(AuthorsOf(commits))
            /\ SumSeq([i \in DOMAIN m.authorCommits |-> m.authorCommits[i].value])
                  = m.commitCount
            /\ m.totalAdditions
                  = SumSeq([i \in DOMAIN commits |-> StatOf(commits[i], "additions")])
            /\ m.totalDeletions
                  = SumSeq([i \in DOMAIN commits |-> StatOf(commits[i], "deletions")])
            /\ m.timeSpan = IF Len(commits) <= 1 THEN 0
                            ELSE Largest(TimesOf(commits)) - Smallest(TimesOf(commits))

\* metrics of a map with two authors, a merge, a commit with one parent, a
\* commit without stats and one with additions only, over two timestamps
C12_Witness ==
    /\ gpc = "measured"
    /\ Len(commits) = 3
    /\ \E i \in DOMAIN commits : Len(commits[i].parents) = 1
    /\ \E i \in DOMAIN commits : commits[i].stats = <<>>
    /\ \E i \in DOMAIN commits :
          commits[i].stats # <<>> /\ commits[i].stats[1].deletions = <<>>
    /\ metrics[1].mergeCount = 1
    /\ metrics[1].authorCount = 2
    /\ metrics[1].timeSpan = 1000
    /\ metrics[1].totalAdditions > 0

\* C16: two commit maps that hold the same commits but were filled in
\* different insertion orders yield the same topoOrder and the same lane for
\* every commit, also with equal authoredAt among ready commits and with a
\* parent that has several children.
C16_InsertionOrderIrrelevant ==
    gpc = "reordered" =>
        /\ rerun[1].topoOrder = topoOrder
        /\ rerun[1].lanes = lanes

\* no two commits of the map have the same authoredAt
DistinctTimes(c) == \A i, j \in DOMAIN c : c[i].authoredAt = c[j].authoredAt => i = j

\* the same for the topological order of maps without equal timestamps,
\* where it holds
OrderOfDistinctTimes ==
    (gpc = "reordered" /\ DistinctTimes(commits)) => rerun[1].topoOrder = topoOrder

\* the 32-bit integer read is the size written
SizeRecovered ==
    /\ headerRead[1].ok
    /\ ~IsNegative32(headerRead[1].size)
    /\ \A k \in 0..(MaxSizeBits - 1) :
          DigitOf(packHeader[1].size, k) = (IF k < 31 THEN headerRead[1].size[32 - k] ELSE 0)

\* C17: reading the object header recovers exactly the type and the size
\* that were encoded, for every type 1..7 and every non-negative size, not
\* only sizes that fit in 31 bits.
C17_HeaderRoundTrip ==
    headerRead # <<>> =>
        /\ headerRead[1].type = packHeader[1].type
        /\ headerRead[1].pos = Len(packHeader[1].data)
        /\ SizeRecovered

\* the same for sizes below 2^31, where it holds
HeaderRoundTripBelowTwoTo31 ==
    (headerRead # <<>> /\ \A k \in 31..MaxSizeBits : DigitOf(packHeader[1].size, k) = 0) =>
        /\ headerRead[1].type = packHeader[1].type
        /\ headerRead[1].pos = Len(packHeader[1].data)
        /\ SizeRecovered

\* the result size the stream declares
DeclaredSize ==
    NatOfBits(ReadResultSize(deltaStream, SkipBaseSize(deltaStream, 0), 0, Int32Of(0)).size)

\* a copy range reaches past the end of the base
CopyLeavesBase ==
    \E i \in DOMAIN deltaInstrs :
        /\ deltaInstrs[i].op = "copy"
        /\ deltaInstrs[i].offset + deltaInstrs[i].size > Len(deltaBase)

\* C18: when the bytes of the copy and insert instructions do not total the
\* declared result size, or a copy range reaches past the end of the base,
\* applying the delta fails with an error; no truncated or zero-padded
\* result is returned.
C18_CorruptDeltaFails ==
    (dpc = "done" /\ (InstructedSize(deltaInstrs) # DeclaredSize \/ CopyLeavesBase)) =>
        deltaResult.thrown

\* the same for instructions that write past the declared size, where it holds
OverlongDeltaFails ==
    (dpc = "done" /\ ~CopyLeavesBase /\ InstructedSize(deltaInstrs) > DeclaredSize) =>
        deltaResult.thrown

\* C19: parsing a pack index whose first 8 bytes are not the version-2
\* magic and version number (a version-1 index included) fails with an
\* unsupported-version error; the index is not accepted as one with no
\* entries.
C19_OtherVersionFails ==
    (ipc = "done" /\ SubSeq(idxData, 1, 8) # IdxMagic \o IdxVersion2) =>
        idxResult.thrown

\* C20: decoding a packed object always ends: an object with more than 50
\* deltas under it, and every object of a chain that leads back to itself
\* by a backreference of 0 or by id, reads as null, and an object with at
\* most 50 deltas under it whose bases decode is resolved.
C20_DeltaChainsEnd ==
    (mpc = "read" /\ source.kind = "chain") =>
        LET under == decoded.oid - 1
        IN  IF source.bottom = "commit" /\ under <= MaxDeltaDepth
            THEN decoded.result = [type |-> "commit", data |-> <<1>> \o [j \in 1..under |-> 2]]
            ELSE decoded.result = Null

\* the object with exactly 50 deltas under it was read and resolved, in a
\* pack that holds longer chains as well
C20_Witness ==
    /\ mpc = "read"
    /\ source.kind = "chain"
    /\ source.bottom = "commit"
    /\ Len(fs.packs[1].data) > MaxDeltaDepth + 2
    /\ decoded.oid = MaxDeltaDepth + 1
    /\ Len(decoded.result.data) = MaxDeltaDepth + 1

\* the commit has a branch hint that is main or master in some spelling
HasMainHint(commit) ==
    \E k \in DOMAIN commit.branchHints :
        ToLower(commit.branchHints[k]) \in {"main", "master"}

\* C14: assignLanes puts in lane 0 every commit that has a branch hint equal
\* to main or master, compared case-insensitively, at whatever position of
\* its hint list and whatever lane its first parent has.
C14_MainHintForcesLaneZero ==
    gpc \in {"built", "again"} =>
        \A i \in DOMAIN commits :
            HasMainHint(commits[i]) => lanes[commits[i].id] = 0

\* the same for commits whose first hint is main or master, where it holds
FirstHintForcesLaneZero ==
    gpc \in {"built", "again"} =>
        \A i \in DOMAIN commits :
            HintForcesLaneZero(commits[i]) => lanes[commits[i].id] = 0

\* the commits of the map that list p among their parents
ChildrenIn(c, p) == {id \in IdsOf(c) : p \in Range(Get(c, id).parents)}

\* the commit is the first of the children of p in the topological order
FirstProcessedChild(c, order, p, id) ==
    \A y \in ChildrenIn(c, p) : PositionIn(order, id) <= PositionIn(order, y)

\* C25: a commit without a main or master hint whose first parent has a lane
\* gets the lane of that parent whenever the parent has exactly one child in
\* the map or the commit is the first of the parent's children to be processed
\* in topological order; every commit of a linear chain has the lane of its
\* parent.
C25_FirstChildInheritsLane ==
    gpc \in {"built", "again"} =>
        \A i \in DOMAIN commits :
            LET commit == commits[i]
            IN  (/\ ~HasMainHint(commit)
                 /\ commit.parents # <<>>
                 /\ Has(commits, commit.parents[1])
                 /\ \/ Cardinality(ChildrenIn(commits, commit.parents[1])) = 1
                    \/ FirstProcessedChild(commits, topoOrder, commit.parents[1], commit.id))
                => lanes[commit.id] = lanes[commit.parents[1]]

\* the part on single children, which holds: the only child of its first
\* parent, and so every commit of a linear chain, has the lane of that parent
OnlyChildInheritsLane ==
    gpc \in {"built", "again"} =>
        \A i \in DOMAIN commits :
            LET commit == commits[i]
            IN  (/\ ~HasMainHint(commit)
                 /\ commit.parents # <<>>
                 /\ Has(commits, commit.parents[1])
                 /\ Cardinality(ChildrenIn(commits, commit.parents[1])) = 1)
                => lanes[commit.id] = lanes[commit.parents[1]]

\* the lanes map after the first k commits of the order are processed
LanesAfter(k) == LaneRun(commits, FreshLaneState, SubSeq(topoOrder, 1, k))

\* the lanes assigned to some commit
Assigned(l) == {l[id] : id \in DOMAIN l}

\* C26: a commit that is neither forced to lane 0 nor inherits the lane of
\* its first parent gets the smallest lane that no commit earlier in the
\* topological order has; no lane is released: after every prefix of the
\* order the assigned lanes are exactly 0..k-1 for some k, and the set never
\* shrinks.
C26_LanesFillFromZero ==
    gpc \in {"built", "again"} =>
        /\ LanesAfter(Len(topoOrder)) = lanes
        /\ \A k \in 1..Len(topoOrder) :
              LET before == LanesAfter(k - 1)
                  after  == LanesAfter(k)
                  commit == Get(commits, topoOrder[k])
              IN  /\ Assigned(after) = 0..(Cardinality(Assigned(after)) - 1)
                  /\ Assigned(before) \subseteq Assigned(after)
                  /\ \A id \in DOMAIN before : after[id] = before[id]
                  /\ (/\ ~HintForcesLaneZero(commit)
                      /\ ~InheritsParentLane(commits, [lanes |-> before], commit))
                     => /\ after[commit.id] \notin Assigned(before)
                        /\ \A l \in 0..(after[commit.id] - 1) : l \in Assigned(before)

\* lanes were assigned to three commits none of which is forced to lane 0
\* or inherits a lane: each took a new lane, 0, 1 and 2
C26_Witness ==
    /\ gpc \in {"built", "again"}
    /\ Len(topoOrder) = 3
    /\ Assigned(lanes) = {0, 1, 2}
    /\ \A k \in 1..3 :
          /\ ~HintForcesLaneZero(Get(commits, topoOrder[k]))
          /\ ~InheritsParentLane(commits, [lanes |-> LanesAfter(k - 1)],
                                 Get(commits, topoOrder[k]))
          /\ lanes[topoOrder[k]] = k - 1

NodesFollowTopoOrder ==
    /\ Len(nodes) = Len(commits)
    /\ [i \in DOMAIN nodes |-> nodes[i].id] = topoOrder

\* 0 <= t <= 1
InUnitInterval(t) == ~t.nan /\ t.den > 0 /\ 0 <= t.num /\ t.num <= t.den

\* t is (authoredAt - min) / (max - min), or 0 when min = max
Interpolated(node) ==
    LET at == Get(commits, node.id).authoredAt
        lo == Smallest(TimesOf(commits))
        hi == Largest(TimesOf(commits))
    IN  IF lo < hi
        THEN ~node.t.nan /\ node.t.num * (hi - lo) = (at - lo) * node.t.den
        ELSE ~node.t.nan /\ node.t.num = 0

\* C13: for every graph built from an acyclic commit map,
\* generatePositionedNodes returns one node per commit in topological order
\* with 0 <= t <= 1, t = (authoredAt - min) / (max - min) when min < max and
\* t = 0 for every node when all commits share one timestamp.
C13_NodesInUnitInterval ==
    (gpc = "placed" /\ Acyclic(commits)) =>
        /\ NodesFollowTopoOrder
        /\ \A i \in DOMAIN nodes : InUnitInterval(nodes[i].t)
        /\ NaN \notin TimesOf(commits) => \A i \in DOMAIN nodes : Interpolated(nodes[i])

\* the same for the maps in which every authoredAt is a number, where it holds
PositionsOfNumberedMaps ==
    (gpc = "placed" /\ Acyclic(commits) /\ NaN \notin TimesOf(commits)) =>
        /\ NodesFollowTopoOrder
        /\ \A i \in DOMAIN nodes : InUnitInterval(nodes[i].t)
        /\ \A i \in DOMAIN nodes : Interpolated(nodes[i])

\* the edges that end at child
IncomingEdges(child) == {i \in DOMAIN edges : edges[i].to = child}

\* no id that is in the map stands twice in the parent list of child
PresentParentsOnce(c, child) ==
    \A p \in PresentParents(c, child) : ParentEntries(c, child, p) = 1

\* every edge carries the flag of its child: parents.length > 1
FlagIsOfChild ==
    \A i \in DOMAIN edges :
        edges[i].isMerge <=> (Len(Get(commits, edges[i].to).parents) > 1)

\* C11 as stated: every edge is flagged isMerge exactly when its child has
\* more than one parent id, and a commit with n >= 2 distinct parents in the
\* map has exactly n incoming edges, all flagged.
C11_MergeEdgesAsStated ==
    gpc = "done" =>
        /\ FlagIsOfChild
        /\ \A child \in IdsOf(commits) :
              Cardinality(PresentParents(commits, child)) >= 2 =>
                  /\ Cardinality(IncomingEdges(child))
                         = Cardinality(PresentParents(commits, child))
                  /\ \A i \in IncomingEdges(child) : edges[i].isMerge

\* C11, amended: every edge is flagged isMerge exactly when its child has
\* more than one parent id, so all edges into one commit carry the same
\* flag; a commit whose parent list names n >= 2 commits of the map, each of
\* them once, has exactly n incoming edges, all flagged.
C11_MergeFlagOfChild ==
    gpc = "done" =>
        /\ FlagIsOfChild
        /\ \A i \in DOMAIN edges : \A j \in DOMAIN edges :
              edges[i].to = edges[j].to => edges[i].isMerge = edges[j].isMerge
        /\ \A child \in IdsOf(commits) :
              (/\ Cardinality(PresentParents(commits, child)) >= 2
               /\ PresentParentsOnce(commits, child)) =>
                  /\ Cardinality(IncomingEdges(child))
                         = Cardinality(PresentParents(commits, child))
                  /\ \A i \in IncomingEdges(child) : edges[i].isMerge

\* edges were generated for a merge of two different commits of the map,
\* and for a commit with one parent in the map whose edge is not flagged
C11_Witness ==
    /\ gpc = "done"
    /\ \E child \in IdsOf(commits) :
          /\ Cardinality(PresentParents(commits, child)) = 2
          /\ PresentParentsOnce(commits, child)
          /\ Cardinality(IncomingEdges(child)) = 2
    /\ \E i \in DOMAIN edges : edges[i].isMerge

-----------------------------------------------------------------------------
(* Properties of the pack index reader.                                    *)

\* the offset the tables of the index encode for entry e
EncodedOffset(e, large) ==
    IF HighBitSet(e.offset32)
    THEN ExactNumber(large[Low31(e.offset32) + 1])
    ELSE ExactNumber(e.offset32)

\* a number below 2^53
BelowTwoTo53(num) == \A k \in 1..(Len(num) - 53) : num[k] = 0

IndexParsed == ipc = "done"

\* the ids of the result are the ids of the hash table
ResultIdsAreTableIds ==
    /\ ~idxResult.thrown
    /\ MapKeys(idxResult.offsets) = {HexOf(idxEntries[i].id) : i \in DOMAIN idxEntries}
    /\ Len(idxResult.offsets) = Len(idxEntries)

\* C2 as stated: parsePackIndex maps every id of the hash table of a
\* well-formed version-2 index to exactly the offset encoded for it (the
\* 4-byte entry, or the 8-byte large-offset entry), and holds no other id.
C2_ExactOffsetsAsStated ==
    IndexParsed =>
        /\ ResultIdsAreTableIds
        /\ \A i \in DOMAIN idxEntries :
              MapGet(idxResult.offsets, HexOf(idxEntries[i].id))
                  = EncodedOffset(idxEntries[i], idxLarge)

\* C2 (amended): parsePackIndex maps every id of the hash table of a
\* well-formed version-2 index to exactly the offset encoded for it whenever
\* that offset is below 2^53, and holds no other id.
C2_ExactOffsetsBelowTwoTo53 ==
    IndexParsed =>
        /\ ResultIdsAreTableIds
        /\ \A i \in DOMAIN idxEntries :
              BelowTwoTo53(EncodedOffset(idxEntries[i], idxLarge)) =>
                  MapGet(idxResult.offsets, HexOf(idxEntries[i].id))
                      = EncodedOffset(idxEntries[i], idxLarge)

\* an index with a direct offset and a large offset of 2^32 or more (below
\* 2^53), read from slot 1 of the large-offset table, has been parsed
C2_Witness ==
    /\ IndexParsed
    /\ Len(idxEntries) = 2
    /\ ~HighBitSet(idxEntries[1].offset32)
    /\ idxEntries[2].offset32 = LargeRef(1)
    /\ BelowTwoTo53(EncodedOffset(idxEntries[2], idxLarge))
    /\ idxLarge[1] # idxLarge[2]
    /\ Len(idxResult.offsets) = 2

-----------------------------------------------------------------------------
(* Reading objects.                                                        *)

\* readGitObject on the files as they are
Decode(files, oid) == readGitObject(files, oid, loadPackIndex(files.packs))

\* oid is read from a pack, and what the merged index gives for it is a
\* delta by id whose base id no index holds
BrokenRefDelta(files, oid) ==
    LET packIndex == loadPackIndex(files.packs)
    IN  /\ LooseFile(files.objects, oid).state \in {"absent", "corrupt"}
        /\ packIndex.loaded
        /\ MapHas(packIndex.extendedOffsets, oid)
        /\ LET info == MapGet(packIndex.extendedOffsets, oid)
               data == files.packs[info.packPath].data
           IN  /\ info.offset \in DOMAIN data
               /\ data[info.offset].type = 7
               /\ data[info.offset].inflates
               /\ ~MapHas(packIndex.offsets, data[info.offset].base)

\* the files without the packed object the merged index gives for oid: its
\* index entry is gone and nothing inflates at its place
Without(files, oid) ==
    LET info == MapGet(loadPackIndex(files.packs).extendedOffsets, oid)
        pack == files.packs[info.packPath]
    IN  [files EXCEPT !.packs[info.packPath] =
            [idx  |-> SelectSeq(pack.idx, LAMBDA e : e.key # oid),
             data |-> [pack.data EXCEPT ![info.offset] = PackedObject(0, FALSE, 0, <<>>)]]]

\* C4: reading a delta by id whose base id is in no pack index returns null,
\* and every other object of the store reads as it would if the broken delta
\* were not there.
C4_BrokenDeltaFailsAlone ==
    (mpc = "read" /\ BrokenRefDelta(fs, decoded.oid)) =>
        /\ decoded.result = Null
        /\ \A o \in ObjectIds \ {decoded.oid} :
               Decode(fs, o) = Decode(Without(fs, decoded.oid), o)

-----------------------------------------------------------------------------
(* The walk.                                                               *)

ReadsAsCommit(files, oid) == Decode(files, oid).type = "commit"

ParentsRead(files, oid) == Range(parseCommitObject(Decode(files, oid).data).parents)

\* the commits reached from found through at most n parent links, every
\* commit on the way reading as a commit
RECURSIVE ReachedFrom(_, _, _)
ReachedFrom(files, found, n) ==
    IF n = 0 THEN found
    ELSE ReachedFrom(files,
                     found \cup {p \in ObjectIds :
                                    /\ ReadsAsCommit(files, p)
                                    /\ \E c \in found : p \in ParentsRead(files, c)},
                     n - 1)

Tips(r) == Range(MapValues(r))

ReachableCommits(files, r) ==
    ReachedFrom(files, {t \in Tips(r) : ReadsAsCommit(files, t)}, MaxObjects)

\* the walk of a ZIP import has run to its end
WalkEnded == mpc = "done" /\ source.kind = "zip" /\ visited # {}

\* the parents of walked commits that do not read
FailedParents ==
    {p \in 1..MissingId :
        /\ Decode(fs, p) = Null
        /\ \E i \in DOMAIN walked : p \in Range(walked[i].parents)}

\* C5: when reading a parent of a read commit fails the walk goes on: the
\* failed id is no commit of the result, and every commit reachable from a
\* ref tip through commits that read is one; the import returns them.
C5_WalkContinuesPastFailedParent ==
    WalkEnded =>
        /\ \A p \in FailedParents : ~Has(walked, p)
        /\ \A c \in ReachableCommits(fs, refs) : Has(walked, c)
        /\ ReachableCommits(fs, refs) # {} =>
               outcome.kind = "graph" /\ outcome.graph.commits = walked

\* a commit with two parents was read, its second parent failed to read and
\* its first parent, no ref tip, was read after that
C5_Witness ==
    /\ WalkEnded
    /\ \E i \in DOMAIN walked :
           /\ Len(walked[i].parents) = 2
           /\ walked[i].parents[2] \in FailedParents
           /\ walked[i].parents[2] \in Range(failedReads)
           /\ Has(walked, walked[i].parents[1])
           /\ walked[i].parents[1] \notin Tips(refs)
    /\ outcome.kind = "graph"

\* C6: when the object of a ref tip does not read, the import fails, also
\* when other ref tips read.
C6_RefTipFailureAborts ==
    (WalkEnded /\ \E t \in Tips(refs) : Decode(fs, t) = Null) => outcome.kind = "error"

\* C7: no import returns a graph whose commit map is empty.
C7_NoEmptyGraph ==
    mpc = "done" => ~(outcome.kind = "graph" /\ outcome.graph.commits = <<>>)

-----------------------------------------------------------------------------
(* The default head.                                                       *)

\* the default branch declared out of band: the defaultBranch of the export,
\* the default_branch of the hosting API
Declared ==
    IF source.kind = "json" THEN source.data.defaultBranch
    ELSE IF source.kind = "github" THEN source.data.default_branch
    ELSE NoBranch

\* the branch HEAD symbolically points to in a ZIP
HeadBranch ==
    IF source.kind = "zip" /\ fs.head.kind = "ref" /\ fs.head.ref.ns = "heads"
    THEN fs.head.ref.name
    ELSE NoBranch

GraphReturned == mpc = "done" /\ outcome.kind = "graph"

\* no rule before "another existing branch" applies
OnlyOtherBranches(heads) ==
    /\ ~(Declared # NoBranch /\ MapHas(heads, Declared))
    /\ ~(HeadBranch # NoBranch /\ MapHas(heads, HeadBranch))
    /\ ~MapHas(heads, "main")
    /\ ~MapHas(heads, "master")
    /\ heads # <<>>

LexFirst(names) ==
    CHOOSE n \in names :
        \A m \in names : PositionIn(NameOrder, n) <= PositionIn(NameOrder, m)

\* C9 as stated: when only another branch can give the default head, it is
\* the target of the lexicographically first branch name.
C9_LexicographicallyFirstBranch ==
    (GraphReturned /\ OnlyOtherBranches(outcome.graph.heads)) =>
        outcome.graph.defaultHead
            = MapGet(outcome.graph.heads, LexFirst(MapKeys(outcome.graph.heads)))

\* the name read first: of a ZIP the first refs/heads/ line of packed-refs,
\* else the first loose ref file that holds an id, else HEAD; the first of
\* the branch list of the API; the first of the refs of the export
FirstRefRead ==
    IF source.kind = "zip"
    THEN LET lines == SelectSeq(fs.packedRefs, LAMBDA l : l.ref.ns = "heads")
             files == SelectSeq(fs.looseRefs, LAMBDA f : f.valid)
         IN  IF lines # <<>> THEN lines[1].ref.name
             ELSE IF files # <<>> THEN files[1].name
             ELSE "HEAD"
    ELSE IF source.kind = "github" THEN source.data.branches[1].name
    ELSE source.data.refs[1].name

\* C9, corrected: it is the target of the ref that entered the ref map first,
\* which is the ref read first.
C9_FirstInsertedBranch ==
    (GraphReturned /\ OnlyOtherBranches(outcome.graph.heads)) =>
        /\ outcome.graph.defaultHead = outcome.graph.heads[1].value
        /\ outcome.graph.heads[1].key = FirstRefRead

\* a ZIP with zeta in packed-refs and alpha as a loose ref, on different
\* commits, was imported: the default head is the target of zeta
C9_Witness ==
    /\ GraphReturned
    /\ OnlyOtherBranches(outcome.graph.heads)
    /\ source.kind = "zip"
    /\ MapKeys(outcome.graph.heads) = {"alpha", "zeta"}
    /\ outcome.graph.heads[1].key = "zeta"
    /\ MapGet(outcome.graph.heads, "alpha") # MapGet(outcome.graph.heads, "zeta")
    /\ outcome.graph.defaultHead = MapGet(outcome.graph.heads, "zeta")

\* the refs of the ZIP have been read
RefsRead == source.kind = "zip" /\ mpc # "zip"

\* the lines "<sha> refs/heads/<name>" of packed-refs
EntryLines(name) ==
    SelectSeq(fs.packedRefs, LAMBDA l : l.lead = "" /\ l.ref = RefName("heads", name))

\* the loose ref files of the branch, and those that hold an id
FilesOf(name) == SelectSeq(fs.looseRefs, LAMBDA f : f.name = name)
ValidFilesOf(name) == SelectSeq(fs.looseRefs, LAMBDA f : f.name = name /\ f.valid)

LastOf(s) == s[Len(s)]

\* C22: in the merged branch table of a ZIP import a branch that has both a
\* line under refs/heads/ in packed-refs and a valid loose ref file maps to
\* the id of the loose file; a branch that is in packed-refs only keeps its
\* packed id; lines of packed-refs that start with # or ^ add no branch.
C22_LooseOverridesPacked ==
    RefsRead =>
        /\ \A n \in RefBranches :
              /\ (EntryLines(n) # <<>> /\ ValidFilesOf(n) # <<>>) =>
                     (MapHas(refs, n) /\ MapGet(refs, n) = ValidFilesOf(n)[1].sha)
              /\ (EntryLines(n) # <<>> /\ FilesOf(n) = <<>>) =>
                     (MapHas(refs, n) /\ MapGet(refs, n) = LastOf(EntryLines(n)).sha)
        /\ MapKeys(refs) \subseteq
              {n \in RefBranches : EntryLines(n) # <<>> \/ ValidFilesOf(n) # <<>>}
                  \cup {"HEAD"}

\* the same for the branches whose loose file lies directly in refs/heads
LooseOverridesPackedInTopDirectory ==
    RefsRead =>
        /\ \A n \in {m \in RefBranches : FirstPart(m) = m} :
              /\ (EntryLines(n) # <<>> /\ ValidFilesOf(n) # <<>>) =>
                     (MapHas(refs, n) /\ MapGet(refs, n) = ValidFilesOf(n)[1].sha)
              /\ (EntryLines(n) # <<>> /\ FilesOf(n) = <<>>) =>
                     (MapHas(refs, n) /\ MapGet(refs, n) = LastOf(EntryLines(n)).sha)
        /\ MapKeys(refs) \subseteq
              {n \in RefBranches : EntryLines(n) # <<>> \/ ValidFilesOf(n) # <<>>}
                  \cup {"HEAD"}

\* a loose ref file in a directory below refs/heads is never read
NestedLooseRefUnread ==
    RefsRead =>
        \A n \in {m \in RefBranches : FirstPart(m) # m} :
            MapHas(refs, n) => (EntryLines(n) # <<>> /\ MapGet(refs, n) = LastOf(EntryLines(n)).sha)

\* the lane of the node of a commit
LaneOfNode(ns, id) == ns[FindIndex(ns, id)].lane

\* C23: pressing the Up or Down arrow key moves the selection only to a
\* commit in the same lane as the selected commit, or leaves the selection
\* unchanged; it never selects a commit in another lane.
C23_UpDownStayInLane ==
    [][(KeyDown("ArrowUp") \/ KeyDown("ArrowDown")) =>
          \/ selectedId' = selectedId
          \/ LaneOfNode(nodes, selectedId') = LaneOfNode(nodes, selectedId)]_vars

\* what the keys do: Up and Down select a commit of the neighbouring lane, or
\* leave the selection when that lane has no commit
UpDownChangeLane ==
    [][(KeyDown("ArrowUp") \/ KeyDown("ArrowDown")) =>
          \/ selectedId' = selectedId
          \/ LaneOfNode(nodes, selectedId') = LaneOfNode(nodes, selectedId) + 1
          \/ LaneOfNode(nodes, selectedId') = LaneOfNode(nodes, selectedId) - 1]_vars

\* the object at a place of a pack, every base of a delta by id read from the
\* pack and the place the merged index gives for the id of the base; n bounds
\* the length of the chain of bases
RECURSIVE ReadAsIndexed(_, _, _, _)
ReadAsIndexed(files, pack, offset, n) ==
    LET packData == files.packs[pack].data
        merged   == loadPackIndex(files.packs).extendedOffsets
    IN  IF n = 0 \/ offset < 1 \/ offset > Len(packData) THEN Null
        ELSE LET entry == packData[offset]
             IN  IF ~entry.inflates THEN Null
                 ELSE IF entry.type = 6
                 THEN Resolved(ReadAsIndexed(files, pack, offset - entry.base, n - 1),
                               entry.data)
                 ELSE IF entry.type = 7
                 THEN IF ~MapHas(merged, entry.base) THEN Null
                      ELSE LET info == MapGet(merged, entry.base)
                           IN  Resolved(ReadAsIndexed(files, info.packPath, info.offset,
                                                      n - 1),
                                        entry.data)
                 ELSE [type |-> TypeName(entry.type), data |-> entry.data]

\* an id no loose file answers for and that the merged index holds
ReadFromPacks(files, oid) ==
    /\ LooseFile(files.objects, oid).state \in {"absent", "corrupt"}
    /\ MapHas(loadPackIndex(files.packs).extendedOffsets, oid)

PackedAsIndexed(files, oid) ==
    LET info == MapGet(loadPackIndex(files.packs).extendedOffsets, oid)
    IN  ReadAsIndexed(files, info.packPath, info.offset, MaxPackObjects + 1)

\* a delta by id of pack p names a base that the merged index puts in
\* another pack
BaseInOtherPack(files) ==
    LET merged == loadPackIndex(files.packs).extendedOffsets
    IN  \E p \in DOMAIN files.packs : \E i \in DOMAIN files.packs[p].data :
           LET entry == files.packs[p].data[i]
           IN  /\ entry.type = 7
               /\ MapHas(merged, entry.base)
               /\ MapGet(merged, entry.base).packPath # p

\* C28: with several indexed packs every packed object, the base of a delta
\* by id in another pack included, is read from the pack the merged index
\* gives for its id; no delta is applied to what stands at the base's offset
\* in another pack.
C28_BaseReadFromIndexedPack ==
    (mpc = "read" /\ ReadFromPacks(fs, decoded.oid)) =>
        decoded.result = PackedAsIndexed(fs, decoded.oid)

\* when no delta by id has its base in another pack, every packed object
\* reads as the merged index says
SamePackBasesReadAsIndexed ==
    (mpc = "read" /\ ReadFromPacks(fs, decoded.oid) /\ ~BaseInOtherPack(fs)) =>
        decoded.result = PackedAsIndexed(fs, decoded.oid)

\* a delta by id whose base is in another pack yields an object although the
\* base, read from its own pack, does not read
DeltaAppliedToOtherPack ==
    /\ mpc = "read"
    /\ ReadFromPacks(fs, decoded.oid)
    /\ BaseInOtherPack(fs)
    /\ decoded.result # Null
    /\ PackedAsIndexed(fs, decoded.oid) = Null

\* the path, the provider and the flag the store holds are those of the
\* import from a hosting URL that gave the displayed graph
PathIsOfDisplayedGraph ==
    /\ graph = <<GraphOf(currentRepoPath)>>
    /\ currentRepoProvider = ProviderOf(currentRepoPath)
    /\ hasMoreCommits = (Len(graph[1].commits) >= DefaultMaxCommits)

\* C29: in every state of the store a non-null currentRepoPath, with
\* currentRepoProvider and hasMoreCommits, is that of the repository the
\* displayed graph was imported from; a graph from a file or a demo leaves
\* no earlier path behind.
C29_RepoPathMatchesGraph == currentRepoPath # NoText => PathIsOfDisplayedGraph

\* the store names a hosting URL while it displays the graph of a file
StalePathOverFileGraph ==
    /\ currentRepoPath \in UrlInputs
    /\ graph = <<GraphOf("a.zip")>>
    /\ loadedCommitCount = 2

\* only setRepoPath and clearGraph write the path: setting a graph of
\* another source keeps the path that was there
SetGraphKeepsPath ==
    [][(currentRepoPath # NoText /\ graph' # graph /\ graph' # <<>>)
          => currentRepoPath' # NoText]_vars

AllSettled == \A i \in DOMAIN imports : imports[i].state = "settled"

LastImport == imports[Len(imports)]

\* the store holds what an import gave: its graph and no error, or its error
StoreShows(imp) ==
    IF imp.result.kind = "graph"
    THEN graph = <<imp.result.graph>> /\ error = NoText
    ELSE error = imp.result.error

\* C30: when an import was started while an earlier one was in flight, then
\* once all have settled the store holds the graph or the error of the one
\* started last; an earlier import that settles later does not overwrite it.
C30_LastStartedImportWins ==
    [][(~AllSettled /\ AllSettled' /\ LastImport'.overlapped) => StoreShows(LastImport)']_vars

\* two imports overlapped, the one started first settled last and the store
\* shows its graph
EarlierImportShown ==
    /\ Len(imports) = 2
    /\ AllSettled
    /\ imports[2].overlapped
    /\ imports[1].result.kind = "graph"
    /\ imports[2].result.kind = "graph"
    /\ graph = <<imports[1].result.graph>>

\* the object the next iteration of the walk pops
Popped == toVisit[Len(toVisit)]

\* the loop of the walk is over: the stack is empty, or the import has ended
LoopOver == mpc = "done" \/ (mpc = "walk" /\ toVisit = <<>>)

\* one iteration reads the popped object only when the walk has not read it
\* before, and records it as read
ReadsOnlyUnread ==
    (mpc = "walk" /\ toVisit # <<>>) =>
        /\ visited \subseteq visited'
        /\ IF Popped \in visited
           THEN UNCHANGED <<decoded, walked, failedReads>>
           ELSE Popped \in visited' /\ decoded'.oid = Popped

\* C27: during one walk every object id is read at most once, however many
\* refs and child commits name it, and the walk ends, also when the parent
\* links form a cycle.
C27_ReadOnceAndEnds == [][ReadsOnlyUnread]_vars /\ <>LoopOver

\* a finished walk over two commits that are each other's parent, the second
\* also the tip of a branch
C27_Witness ==
    /\ mpc = "done"
    /\ Len(fs.looseRefs) = 2
    /\ fs.objects[1] = LooseRecord("object", "commit", <<2>>)
    /\ fs.objects[2] = LooseRecord("object", "commit", <<1>>)
    /\ {1, 2} \subseteq visited
    /\ Len(walked) = 2

\* C3: applying a well-formed delta stream to its base yields exactly the
\* concatenation of the ranges its copy instructions name and the literals its
\* insert instructions carry, a copy whose size field is zero copying 65536
\* bytes.
C3_DeltaIsConcatenation ==
    dpc = "done" =>
        /\ ~deltaResult.thrown
        /\ deltaResult.data = ExpectedOutput(deltaBase, deltaInstrs)

\* a delta with a copy whose size field is zero, and a literal, was applied
C3_Witness ==
    /\ dpc = "done"
    /\ \E i \in DOMAIN deltaInstrs :
           /\ deltaInstrs[i].op = "copy"
           /\ deltaInstrs[i].size = 65536
           /\ ~deltaInstrs[i].full
    /\ \E i \in DOMAIN deltaInstrs : deltaInstrs[i].op = "insert"
    /\ Len(deltaResult.data) = 65537

====
